---- MODULE Spec2Model ----
(***************************************************************************)
(* CityInfraXLS: the resilient batch geocoding client.                     *)
(*   utils/retry_handler.py   RetryStrategy, GeocodeLogger, with_retry,    *)
(*                            _categorize_error                            *)
(*   utils/batch_geocoder.py  BatchGeocoder                                *)
(* Delays are counted in ticks of a quarter second, so that the jitter     *)
(* factors 0.75 and 1.25 stay integral.  An error message is carried by    *)
(* its name; MessageText gives its characters.                             *)
(***************************************************************************)
EXTENDS Integers, Sequences, FiniteSets, TLC

None == "None"

(***************************************************************************)
(* Bounds of the model.                                                    *)
(***************************************************************************)
MaxRetries == 3
MaxAttemptArg == 4

(***************************************************************************)
(* Error messages (str(error)) and the term lists of _categorize_error.    *)
(***************************************************************************)
MsgRateLimit == <<"R","a","t","e"," ","l","i","m","i","t"," ","e","x","c","e","e","d","e","d">>

MsgAuth == <<"H","T","T","P"," ","4","0","1"," ","U","n","a","u","t","h","o","r","i","z","e","d">>

MsgBadRequest == <<"4","0","0"," ","B","a","d"," ","r","e","q","u","e","s","t">>

MsgNotFound == <<"N","o","t"," ","f","o","u","n","d">>

MsgServer == <<"I","n","t","e","r","n","a","l"," ","s","e","r","v","e","r"," ","e","r","r","o","r"," ","5","0","0">>

MsgNetwork == <<"N","e","t","w","o","r","k"," ","c","o","n","n","e","c","t","i","v","i","t","y"," ","f","a","i","l","e","d">>

MsgOther == <<"S","o","m","e"," ","o","t","h","e","r"," ","e","r","r","o","r">>

MsgMixed == <<"I","n","v","a","l","i","d"," ","k","e","y",":"," ","r","a","t","e"," ","l","i","m","i","t">>

MsgQuotaUpper == <<"Q","U","O","T","A"," ","E","X","C","E","E","D","E","D">>

MsgServerTimeout == <<"S","e","r","v","e","r"," ","c","o","n","n","e","c","t","i","o","n"," ","t","i","m","e","o","u","t">>

MsgInvalidNotFound == <<"I","n","v","a","l","i","d"," ","i","d",":"," ","n","o","t"," ","f","o","u","n","d">>

MsgMonkey == <<"M","o","n","k","e","y"," ","b","u","s","i","n","e","s","s">>

MsgEmpty == <<>>

Messages ==
    { "MsgRateLimit", "MsgAuth", "MsgBadRequest", "MsgNotFound",
      "MsgServer", "MsgNetwork", "MsgOther", "MsgMixed",
      "MsgQuotaUpper", "MsgServerTimeout", "MsgInvalidNotFound",
      "MsgMonkey", "MsgEmpty" }

MessageText(m) ==
    CASE m = "MsgRateLimit"  -> MsgRateLimit
      [] m = "MsgAuth"       -> MsgAuth
      [] m = "MsgBadRequest" -> MsgBadRequest
      [] m = "MsgNotFound"   -> MsgNotFound
      [] m = "MsgServer"     -> MsgServer
      [] m = "MsgNetwork"    -> MsgNetwork
      [] m = "MsgOther"      -> MsgOther
      [] m = "MsgMixed"      -> MsgMixed
      [] m = "MsgQuotaUpper" -> MsgQuotaUpper
      [] m = "MsgServerTimeout" -> MsgServerTimeout
      [] m = "MsgInvalidNotFound" -> MsgInvalidNotFound
      [] m = "MsgMonkey"     -> MsgMonkey
      [] m = "MsgEmpty"      -> MsgEmpty

UpperCase ==
    <<"A","B","C","D","E","F","G","H","I","J","K","L","M",
      "N","O","P","Q","R","S","T","U","V","W","X","Y","Z">>

LowerCase ==
    <<"a","b","c","d","e","f","g","h","i","j","k","l","m",
      "n","o","p","q","r","s","t","u","v","w","x","y","z">>

\* str.lower() on one character
LowerChar(c) ==
    IF \E i \in 1..26 : UpperCase[i] = c
    THEN LowerCase[CHOOSE i \in 1..26 : UpperCase[i] = c]
    ELSE c

Lower(s) == [i \in 1..Len(s) |-> LowerChar(s[i])]

\* term in error_str
Contains(s, t) ==
    \E i \in 1..(Len(s) - Len(t) + 1) : SubSeq(s, i, i + Len(t) - 1) = t

AnyTerm(s, terms) == \E t \in terms : Contains(s, t)

RateLimitTerms ==
    { <<"r","a","t","e"," ","l","i","m","i","t">>,
      <<"q","u","o","t","a">>,
      <<"t","o","o"," ","m","a","n","y"," ","r","e","q","u","e","s","t","s">>,
      <<"4","2","9">> }

AuthTerms ==
    { <<"a","u","t","h">>,
      <<"k","e","y">>,
      <<"c","r","e","d","e","n","t","i","a","l">>,
      <<"p","e","r","m","i","s","s","i","o","n">>,
      <<"4","0","1">>,
      <<"4","0","3">> }

InvalidRequestTerms ==
    { <<"i","n","v","a","l","i","d">>,
      <<"m","a","l","f","o","r","m","e","d">>,
      <<"s","y","n","t","a","x">>,
      <<"p","a","r","a","m","e","t","e","r">>,
      <<"4","0","0">> }

NotFoundTerms ==
    { <<"n","o","t"," ","f","o","u","n","d">>,
      <<"n","o"," ","r","e","s","u","l","t">>,
      <<"z","e","r","o"," ","r","e","s","u","l","t">>,
      <<"4","0","4">> }

ServerTerms ==
    { <<"s","e","r","v","e","r">>,
      <<"i","n","t","e","r","n","a","l">>,
      <<"5","0","0">>,
      <<"5","0","2">>,
      <<"5","0","3">>,
      <<"5","0","4">> }

NetworkTerms ==
    { <<"n","e","t","w","o","r","k">>,
      <<"c","o","n","n","e","c","t","i","o","n">>,
      <<"t","i","m","e","o","u","t">>,
      <<"c","o","n","n","e","c","t">> }

\* The chain of tests with the authentication terms tried first
CategorizeText_auth_first(error_str) ==
    IF AnyTerm(error_str, AuthTerms) THEN "AUTH_ERROR"
    ELSE IF AnyTerm(error_str, RateLimitTerms) THEN "RATE_LIMIT"
    ELSE IF AnyTerm(error_str, InvalidRequestTerms) THEN "INVALID_REQUEST"
    ELSE IF AnyTerm(error_str, NotFoundTerms) THEN "NOT_FOUND"
    ELSE IF AnyTerm(error_str, ServerTerms) THEN "SERVER_ERROR"
    ELSE IF AnyTerm(error_str, NetworkTerms) THEN "NETWORK_ERROR"
    ELSE "UNKNOWN_ERROR"

\* _categorize_error: the category; the message returned with it is str(error)
CategorizeText(error_str) ==
    IF AnyTerm(error_str, RateLimitTerms) THEN "RATE_LIMIT"
    ELSE IF AnyTerm(error_str, AuthTerms) THEN "AUTH_ERROR"
    ELSE IF AnyTerm(error_str, InvalidRequestTerms) THEN "INVALID_REQUEST"
    ELSE IF AnyTerm(error_str, NotFoundTerms) THEN "NOT_FOUND"
    ELSE IF AnyTerm(error_str, ServerTerms) THEN "SERVER_ERROR"
    ELSE IF AnyTerm(error_str, NetworkTerms) THEN "NETWORK_ERROR"
    ELSE "UNKNOWN_ERROR"

\* The category of each message, computed once from its text
CategoryOf == [m \in Messages |-> CategorizeText(Lower(MessageText(m)))]

categorize_error(error) ==
    [error_category |-> CategoryOf[error.msg], error_message |-> error.msg]

(***************************************************************************)
(* Exception types and isinstance.                                         *)
(***************************************************************************)
ErrorTypes ==
    { "RetryableError", "PermanentError", "ConnectionError",
      "TimeoutError", "ValueError" }

IsInstance(error, classes) == error.type \in classes

(***************************************************************************)
(* RetryStrategy.                                                          *)
(***************************************************************************)
DefaultMaxRetries == 5
DefaultInitialDelay == 4
DefaultMaxDelay == 240
DefaultBackoffFactor == 2

\* RetryStrategy() with no arguments
DefaultStrategy ==
    [max_retries |-> DefaultMaxRetries, initial_delay |-> DefaultInitialDelay,
     max_delay |-> DefaultMaxDelay, backoff_factor |-> DefaultBackoffFactor,
     jitter |-> TRUE]

\* The strategies a caller constructs
Strategies ==
    [max_retries : -1..MaxRetries, initial_delay : {0, 4},
     max_delay : {8}, backoff_factor : {2}, jitter : BOOLEAN]

\* The test strategy of test_get_retry_delay_no_jitter and the strategies a
\* constructor call can build with other delays and factors: no argument of
\* RetryStrategy.__init__ is validated
DelayStrategies ==
    [max_retries : {MaxRetries}, initial_delay : {0 - 4, 0, 4},
     max_delay : {0 - 8, 8, 40}, backoff_factor : {0, 1, 2}, jitter : BOOLEAN]

\* The attempt at which the test strategy is capped
LargeAttempt == 10

RECURSIVE Pow(_, _)
Pow(b, e) == IF e <= 0 THEN 1 ELSE b * Pow(b, e - 1)

Min(a, b) == IF a <= b THEN a ELSE b

Max(a, b) == IF a >= b THEN a ELSE b

\* The delay with the exponent attempt in place of attempt - 1
BaseDelay_exponent_attempt(s, attempt) ==
    IF attempt <= 0 THEN 0
    ELSE Min(s.max_delay, s.initial_delay * Pow(s.backoff_factor, attempt))

\* get_retry_delay before the jitter is applied
BaseDelay(s, attempt) ==
    IF attempt <= 0 THEN 0
    ELSE Min(s.max_delay, s.initial_delay * Pow(s.backoff_factor, attempt - 1))

\* random.uniform(delay * 0.75, delay * 1.25): the two ends of the interval
JitterSamples(delay) == { (delay * 3) \div 4, (delay * 5) \div 4 }

\* get_retry_delay: the set of values one call can return
get_retry_delay(s, attempt) ==
    IF attempt <= 0 THEN {0}
    ELSE IF s.jitter THEN JitterSamples(BaseDelay(s, attempt))
    ELSE {BaseDelay(s, attempt)}

\* should_retry with the budget test off by one
should_retry_off_by_one(s, attempt, error) ==
    IF attempt > s.max_retries THEN FALSE
    ELSE IF IsInstance(error, {"PermanentError"}) THEN FALSE
    ELSE IsInstance(error, {"RetryableError"})
         \/ IsInstance(error, {"ConnectionError", "TimeoutError"})

\* should_retry giving up one attempt early
should_retry_early(s, attempt, error) ==
    IF attempt + 1 >= s.max_retries THEN FALSE
    ELSE IF IsInstance(error, {"PermanentError"}) THEN FALSE
    ELSE IsInstance(error, {"RetryableError"})
         \/ IsInstance(error, {"ConnectionError", "TimeoutError"})

\* should_retry deciding by the text category as well as by the type
should_retry_by_category(s, attempt, error) ==
    IF attempt >= s.max_retries THEN FALSE
    ELSE IF IsInstance(error, {"PermanentError"}) THEN FALSE
    ELSE \/ IsInstance(error, {"RetryableError"})
         \/ IsInstance(error, {"ConnectionError", "TimeoutError"})
         \/ CategoryOf[error.msg] \in {"NETWORK_ERROR", "RATE_LIMIT", "SERVER_ERROR"}

\* should_retry retrying every error that is not a PermanentError
should_retry_any_exception(s, attempt, error) ==
    IF attempt >= s.max_retries THEN FALSE
    ELSE IF IsInstance(error, {"PermanentError"}) THEN FALSE
    ELSE TRUE

\* should_retry without the test of the attempt against max_retries
should_retry_without_budget(s, attempt, error) ==
    IF IsInstance(error, {"PermanentError"}) THEN FALSE
    ELSE IsInstance(error, {"RetryableError"})
         \/ IsInstance(error, {"ConnectionError", "TimeoutError"})

should_retry(s, attempt, error) ==
    IF attempt >= s.max_retries THEN FALSE
    ELSE IF IsInstance(error, {"PermanentError"}) THEN FALSE
    ELSE IsInstance(error, {"RetryableError"})
         \/ IsInstance(error, {"ConnectionError", "TimeoutError"})

(***************************************************************************)
(* GeocodeLogger.                                                          *)
(***************************************************************************)
FlushThreshold == 50

\* The retry_delay of a record logged without one: None in the source
NoDelay == 0 - 1

\* LogEntry recording every attempt that raised as failed
LogEntry_error_is_failed(asset_id, address, operation, attempt, status, provider, error_category, error_message, retry_delay) ==
    [asset_id |-> asset_id, address |-> address, operation |-> operation,
     attempt |-> attempt,
     status |-> IF error_category # None THEN "failed" ELSE status,
     error_category |-> error_category,
     error_message |-> error_message, retry_delay |-> retry_delay,
     provider |-> provider]

LogEntry(asset_id, address, operation, attempt, status, provider, error_category, error_message, retry_delay) ==
    [asset_id |-> asset_id, address |-> address, operation |-> operation,
     attempt |-> attempt, status |-> status, error_category |-> error_category,
     error_message |-> error_message, retry_delay |-> retry_delay,
     provider |-> provider]

\* flush_logs writing the buffered records before the persisted ones
flush_logs_buffer_first(buf, persisted, readOk, writeOk) ==
    IF buf = <<>> THEN [logs |-> buf, persisted |-> persisted]
    ELSE LET combined_logs == IF readOk THEN buf \o persisted ELSE buf
         IN  IF writeOk
             THEN [logs |-> <<>>, persisted |-> combined_logs]
             ELSE [logs |-> buf, persisted |-> persisted]

\* flush_logs clearing the buffer whether or not the write completed
flush_logs_always_clears(buf, persisted, readOk, writeOk) ==
    IF buf = <<>> THEN [logs |-> buf, persisted |-> persisted]
    ELSE LET combined_logs == IF readOk THEN persisted \o buf ELSE buf
         IN  IF writeOk
             THEN [logs |-> <<>>, persisted |-> combined_logs]
             ELSE [logs |-> <<>>, persisted |-> persisted]

\* flush_logs on buffer buf and persisted GeocodeLog table; readOk and writeOk
\* say whether read_excel and the ExcelWriter block complete
flush_logs(buf, persisted, readOk, writeOk) ==
    IF buf = <<>> THEN [logs |-> buf, persisted |-> persisted]
    ELSE LET combined_logs == IF readOk THEN persisted \o buf ELSE buf
         IN  IF writeOk
             THEN [logs |-> <<>>, persisted |-> combined_logs]
             ELSE [logs |-> buf, persisted |-> persisted]

\* log_attempt flushing only above the threshold
log_attempt_flush_above(buf, persisted, log_entry, readOk, writeOk) ==
    LET appended == Append(buf, log_entry)
    IN  IF Len(appended) > FlushThreshold
        THEN flush_logs(appended, persisted, readOk, writeOk)
        ELSE [logs |-> appended, persisted |-> persisted]

\* log_attempt: lines 181-184
log_attempt(buf, persisted, log_entry, readOk, writeOk) ==
    LET appended == Append(buf, log_entry)
    IN  IF Len(appended) >= FlushThreshold
        THEN flush_logs(appended, persisted, readOk, writeOk)
        ELSE [logs |-> appended, persisted |-> persisted]

(***************************************************************************)
(* with_retry.  The operation func is the environment: each invocation     *)
(* returns a value or raises an error, a fresh object numbered by the      *)
(* invocation that raised it.                                              *)
(***************************************************************************)
VARIABLES
    wr_pc,          \* "idle", "loop", "sleeping", "returned", "raised"
    retry_strategy, \* the strategy of the call in progress
    wr_args,        \* asset_id, address, operation, provider of the call
    attempt,        \* the local attempt
    last_error,     \* the local last_error
    delay,          \* the local delay while sleeping
    invocations,    \* number of times func was invoked in this call
    call_records,   \* the entries this call passed to log_attempt, in order
    slept,          \* the delays this call slept, in order
    func_outcomes,  \* what func did on each invocation, in order
    wr_result,      \* the value returned by with_retry
    wr_raised,      \* the error raised by with_retry
    logs,           \* GeocodeLogger.logs, the buffer
    persisted_log   \* the GeocodeLog sheet of the geodata file

retryVars ==
    <<wr_pc, retry_strategy, wr_args, attempt, last_error, delay, invocations,
      call_records, slept, func_outcomes, wr_result, wr_raised, logs,
      persisted_log>>

Values == { "done", "coords" }

\* The errors func raises in this model: every retryable type, and the
\* non-retryable types with messages of several categories
RaisableErrors ==
    { <<"RetryableError", "MsgRateLimit">>, <<"ConnectionError", "MsgNetwork">>,
      <<"TimeoutError", "MsgOther">>, <<"PermanentError", "MsgAuth">>,
      <<"PermanentError", "MsgNetwork">>, <<"ValueError", "MsgRateLimit">>,
      <<"ValueError", "MsgServer">>, <<"ValueError", "MsgNetwork">>,
      <<"ValueError", "MsgOther">> }

NewError(tm, n) == [type |-> tm[1], msg |-> tm[2], id |-> n]

\* The values of the locals and results that are None in the source: no
\* strategy and no arguments before the call, no error, no delay
NoStrategy ==
    [max_retries |-> 0, initial_delay |-> 0, max_delay |-> 0,
     backoff_factor |-> 0, jitter |-> FALSE]

NoArgs == [asset_id |-> None, address |-> None, operation |-> None, provider |-> None]

NoError == [type |-> None, msg |-> None, id |-> 0]

\* What one invocation of func did
Returned(value) == [kind |-> "return", value |-> value, error |-> NoError]

Raised(e) == [kind |-> "raise", value |-> None, error |-> e]

CallArgs ==
    [asset_id : {"A1"}, address : {"addr"}, operation : {"geocode"},
     provider : {"test"}]

\* The retry_strategy argument: a strategy, or omitted
StrategyArgs ==
    [given : {TRUE}, value : Strategies] \cup {[given |-> FALSE]}

\* A record logged by an earlier operation on the same logger
EarlierEntry ==
    LogEntry("A0", "addr0", "geocode", 1, "success", "test", None, None, NoDelay)

EarlierEntries(n) == [i \in 1..n |-> EarlierEntry]

\* The records an earlier with_retry call for item A1 left in the buffer: its
\* operation raised a rate-limit error once and then returned
PriorCallRecords ==
    LET c == categorize_error(NewError(<<"RetryableError", "MsgRateLimit">>, 1))
        d == CHOOSE x \in get_retry_delay(DefaultStrategy, 1) : TRUE
    IN  <<LogEntry("A1", "addr", "geocode", 1, "retry", "test",
                   c.error_category, c.error_message, d),
          LogEntry("A1", "addr", "geocode", 2, "success", "test", None, None, NoDelay)>>

\* The buffers and tables with_retry starts from: an unused logger, a logger
\* two records short of a flush, a logger already used for the same item
LoggerPrefills ==
    { [logs |-> <<>>, persisted |-> <<>>],
      [logs |-> EarlierEntries(FlushThreshold - 2), persisted |-> EarlierEntries(1)],
      [logs |-> PriorCallRecords, persisted |-> <<>>] }

\* A logger on which with_retry is never called
RetryInitAtRest ==
    /\ wr_pc = "idle"
    /\ retry_strategy = NoStrategy
    /\ wr_args = NoArgs
    /\ attempt = 0
    /\ last_error = NoError
    /\ delay = NoDelay
    /\ invocations = 0
    /\ call_records = <<>>
    /\ slept = <<>>
    /\ func_outcomes = <<>>
    /\ wr_result = None
    /\ wr_raised = NoError
    /\ logs = <<>>
    /\ persisted_log = <<>>

RetryInit ==
    /\ wr_pc = "idle"
    /\ retry_strategy = NoStrategy
    /\ wr_args = NoArgs
    /\ attempt = 0
    /\ last_error = NoError
    /\ delay = NoDelay
    /\ invocations = 0
    /\ call_records = <<>>
    /\ slept = <<>>
    /\ func_outcomes = <<>>
    /\ wr_result = None
    /\ wr_raised = NoError
    /\ \E prefill \in LoggerPrefills :
          /\ logs = prefill.logs
          /\ persisted_log = prefill.persisted

\* with_retry starting its attempt counter at 1
WithRetryCall_attempt_from_one(args, strategy_arg) ==
    /\ wr_pc = "idle"
    /\ wr_pc' = "loop"
    /\ wr_args' = args
    /\ retry_strategy' =
           IF strategy_arg.given THEN strategy_arg.value ELSE DefaultStrategy
    /\ attempt' = 1
    /\ last_error' = NoError
    /\ UNCHANGED <<delay, invocations, call_records, slept, func_outcomes,
                   wr_result, wr_raised, logs, persisted_log>>

\* with_retry is called: lines 279-284
WithRetryCall(args, strategy_arg) ==
    /\ wr_pc = "idle"
    /\ wr_pc' = "loop"
    /\ wr_args' = args
    /\ retry_strategy' =
           IF strategy_arg.given THEN strategy_arg.value ELSE DefaultStrategy
    /\ attempt' = 0
    /\ last_error' = NoError
    /\ UNCHANGED <<delay, invocations, call_records, slept, func_outcomes,
                   wr_result, wr_raised, logs, persisted_log>>

\* logger.log_attempt(...) as with_retry calls it
WithRetryLog(entry, readOk, writeOk) ==
    LET r == log_attempt(logs, persisted_log, entry, readOk, writeOk)
    IN  /\ logs' = r.logs
        /\ persisted_log' = r.persisted
        /\ call_records' = Append(call_records, entry)

\* One pass of the loop in which func() returns: lines 287-303
AttemptSuccess(value, readOk, writeOk) ==
    /\ wr_pc = "loop"
    /\ attempt' = attempt + 1
    /\ invocations' = invocations + 1
    /\ func_outcomes' = Append(func_outcomes, Returned(value))
    /\ WithRetryLog(LogEntry(wr_args.asset_id, wr_args.address,
                             wr_args.operation, attempt + 1, "success",
                             wr_args.provider, None, None, NoDelay),
                    readOk, writeOk)
    /\ wr_result' = value
    /\ wr_pc' = "returned"
    /\ UNCHANGED <<retry_strategy, wr_args, last_error, delay, slept, wr_raised>>

\* One pass in which func() raises and should_retry says yes: lines 287-327
AttemptRetry(tm, readOk, writeOk) ==
    LET e == NewError(tm, invocations + 1)
        c == categorize_error(e)
    IN  /\ wr_pc = "loop"
        /\ should_retry(retry_strategy, attempt + 1, e)
        /\ attempt' = attempt + 1
        /\ invocations' = invocations + 1
        /\ func_outcomes' = Append(func_outcomes, Raised(e))
        /\ last_error' = e
        /\ \E d \in get_retry_delay(retry_strategy, attempt + 1) :
              /\ delay' = d
              /\ WithRetryLog(LogEntry(wr_args.asset_id, wr_args.address,
                                       wr_args.operation, attempt + 1, "retry",
                                       wr_args.provider, c.error_category,
                                       c.error_message, d),
                              readOk, writeOk)
        /\ wr_pc' = "sleeping"
        /\ UNCHANGED <<retry_strategy, wr_args, slept, wr_result, wr_raised>>

\* time.sleep(delay) returns: line 330
RetrySleep ==
    /\ wr_pc = "sleeping"
    /\ slept' = Append(slept, delay)
    /\ delay' = NoDelay
    /\ wr_pc' = "loop"
    /\ UNCHANGED <<retry_strategy, wr_args, attempt, last_error, invocations,
                   call_records, func_outcomes, wr_result, wr_raised, logs,
                   persisted_log>>

\* Reraised wrapping the error in a new one
Reraised_wrapped(e) == [type |-> "RuntimeError", msg |-> e.msg, id |-> 0]

\* The error with_retry raises from its except block: the bare raise of line 346
Reraised(e) == e

\* One pass in which func() raises and should_retry says no: lines 287-346
AttemptFailed(tm, readOk, writeOk) ==
    LET e == NewError(tm, invocations + 1)
        c == categorize_error(e)
    IN  /\ wr_pc = "loop"
        /\ ~should_retry(retry_strategy, attempt + 1, e)
        /\ attempt' = attempt + 1
        /\ invocations' = invocations + 1
        /\ func_outcomes' = Append(func_outcomes, Raised(e))
        /\ last_error' = e
        /\ WithRetryLog(LogEntry(wr_args.asset_id, wr_args.address,
                                 wr_args.operation, attempt + 1, "failed",
                                 wr_args.provider, c.error_category,
                                 c.error_message, NoDelay),
                        readOk, writeOk)
        /\ wr_raised' = Reraised(e)
        /\ wr_pc' = "raised"
        /\ UNCHANGED <<retry_strategy, wr_args, delay, slept, wr_result>>

RetryNext ==
    \/ \E args \in CallArgs, sa \in StrategyArgs : WithRetryCall(args, sa)
    \/ \E v \in Values, readOk, writeOk \in BOOLEAN : AttemptSuccess(v, readOk, writeOk)
    \/ \E tm \in RaisableErrors, readOk, writeOk \in BOOLEAN : AttemptRetry(tm, readOk, writeOk)
    \/ RetrySleep
    \/ \E tm \in RaisableErrors, readOk, writeOk \in BOOLEAN : AttemptFailed(tm, readOk, writeOk)

(***************************************************************************)
(* BatchGeocoder.  A coordinate is an integer; NaN stands for an empty     *)
(* cell.  The geodata file holds the AssetGeodata table, the Metadata and  *)
(* AllowedValues sheets and the GeocodeLog sheet (persisted_log).          *)
(***************************************************************************)
MaxBatchSize == 2
MaxWorkers == 2
\* No run of the model has more chunk-tasks than work items
MaxTasks == 3

NaN == 0 - 1

Providers == { "nominatim", "google", "mapbox", "here", "arcgis", "test" }

\* What the HTTP request of an adapter can meet: a first match with its
\* coordinates, a first match whose coordinate fields are missing, no match,
\* or a failure of the request (raise_for_status, json, the transport)
ExternalResponses ==
    { [kind |-> "match", lat |-> c, lng |-> c + 10] : c \in {1, 2} }
    \cup { [kind |-> "match_without_coordinates"], [kind |-> "no_match"],
           [kind |-> "failure"] }

\* An adapter reporting OK for a match it could not read coordinates from
AdapterResult_ok_without_coordinates(provider, response) ==
    CASE response.kind = "match" ->
             [status |-> "OK", latitude |-> response.lat, longitude |-> response.lng]
      [] response.kind = "match_without_coordinates" ->
             [status |-> "OK", latitude |-> NaN, longitude |-> NaN]
      [] response.kind = "no_match" ->
             [status |-> IF provider = "google" THEN "ZERO_RESULTS" ELSE "NOT_FOUND",
              latitude |-> NaN, longitude |-> NaN]
      [] OTHER -> [status |-> "ERROR", latitude |-> NaN, longitude |-> NaN]

\* _geocode_nominatim, _geocode_google and _geocode_mapbox on one response:
\* reading a missing coordinate raises inside the try block, and every
\* exception becomes an ERROR result
AdapterResult(provider, response) ==
    CASE response.kind = "match" ->
             [status |-> "OK", latitude |-> response.lat, longitude |-> response.lng]
      [] response.kind = "no_match" ->
             [status |-> IF provider = "google" THEN "ZERO_RESULTS" ELSE "NOT_FOUND",
              latitude |-> NaN, longitude |-> NaN]
      [] OTHER -> [status |-> "ERROR", latitude |-> NaN, longitude |-> NaN]

\* The wrappers of _geocode_nominatim, _geocode_mapbox and _geocode_google
\* around one HTTP request: what one call can return
ExternalOutcomes(provider) ==
    { AdapterResult(provider, response) : response \in ExternalResponses }

\* int(hashlib.md5(location_str.encode()).hexdigest(), 16)
HashOf(location_str) ==
    CASE location_str = "LocA" -> 1
      [] location_str = "LocB" -> 2
      [] location_str = "LocC" -> 3

\* The n-th value the generator yields after random.seed(seed)
RandomValue(seed, n) == 100 * seed + n

Asset(id, loc) == [asset_id |-> id, location_description |-> loc]

GeoRow(id, lat, lng, source, vstatus) ==
    [asset_id |-> id, latitude |-> lat, longitude |-> lng,
     geocode_source |-> source, validation_status |-> vstatus]

\* data/assets.xlsx as identify_assets_needing_geocoding reads it; a store that
\* cannot be read, or lacks the columns, is "unreadable"
AssetStores ==
    { [readable |-> TRUE,
       rows |-> << Asset("A1", "LocA"), Asset("A2", "LocB"),
                   Asset("A3", "LocA"), Asset("A4", None) >>],
      [readable |-> FALSE, rows |-> <<>>] }

\* The AssetGeodata table before a run
GeodataTables ==
    { <<>>,
      << GeoRow("A1", NaN, NaN, "MANUAL_ENTRY", "UNVERIFIED"),
         GeoRow("Z9", 7, 17, "MANUAL_ENTRY", "VERIFIED") >>,
      << GeoRow("A2", 8, 18, "MANUAL_ENTRY", "VERIFIED"),
         GeoRow("A3", 9, NaN, "MANUAL_ENTRY", "UNVERIFIED") >>,
      << GeoRow("A1", NaN, NaN, "MANUAL_ENTRY", "UNVERIFIED"),
         GeoRow("A1", 5, 15, "MANUAL_ENTRY", "VERIFIED"),
         GeoRow("A2", 8, 18, "MANUAL_ENTRY", "VERIFIED"),
         GeoRow("A3", 9, 19, "MANUAL_ENTRY", "VERIFIED") >> }

\* The assets argument of run_geocoding_batch, when given
SuppliedAssets ==
    { <<>>, << Asset("A2", "LocB"), Asset("A1", "LocC") >> }

RECURSIVE SelectSeq2(_, _)
\* The rows of s whose index satisfies keep, in order
SelectSeq2(s, keep) ==
    IF s = <<>> THEN <<>>
    ELSE LET front == SelectSeq2(SubSeq(s, 1, Len(s) - 1), keep)
         IN  IF keep[Len(s)] THEN Append(front, s[Len(s)]) ELSE front

\* identify_assets_needing_geocoding taking one coordinate for a located row
identify_assets_needing_geocoding_either(store, table) ==
    IF ~store.readable THEN <<>>
    ELSE LET assets_with_coords ==
                 { table[i].asset_id : i \in
                     { j \in 1..Len(table) :
                         table[j].latitude # NaN \/ table[j].longitude # NaN } }
             rows == store.rows
         IN  SelectSeq2(rows,
                 [i \in 1..Len(rows) |->
                     /\ rows[i].location_description # None
                     /\ rows[i].asset_id \notin assets_with_coords])

\* identify_assets_needing_geocoding: lines 255-299
identify_assets_needing_geocoding(store, table) ==
    IF ~store.readable THEN <<>>
    ELSE LET assets_with_coords ==
                 { table[i].asset_id : i \in
                     { j \in 1..Len(table) :
                         table[j].latitude # NaN /\ table[j].longitude # NaN } }
             rows == store.rows
         IN  SelectSeq2(rows,
                 [i \in 1..Len(rows) |->
                     /\ rows[i].location_description # None
                     /\ rows[i].asset_id \notin assets_with_coords])

\* The truncation skipped when max_assets is 0 ("if max_assets:")
Truncate_zero_is_unlimited(assets, max_assets) ==
    IF max_assets = 0 THEN assets
    ELSE SubSeq(assets, 1, Min(Len(assets), max_assets))

\* assets[:max_assets] for max_assets >= 0
Truncate(assets, max_assets) ==
    SubSeq(assets, 1, Min(Len(assets), max_assets))

\* The split without the last, shorter chunk
Batches_drop_remainder(assets, batch_size) ==
    [k \in 1..(Len(assets) \div batch_size) |->
        SubSeq(assets, (k - 1) * batch_size + 1, k * batch_size)]

\* [assets[i:i + batch_size] for i in range(0, len(assets), batch_size)]
Batches(assets, batch_size) ==
    [k \in 1..((Len(assets) + batch_size - 1) \div batch_size) |->
        SubSeq(assets, (k - 1) * batch_size + 1,
               Min(Len(assets), k * batch_size))]

\* _get_google_accuracy
get_google_accuracy(location_type) ==
    CASE location_type = "ROOFTOP" -> 10
      [] location_type = "RANGE_INTERPOLATED" -> 50
      [] location_type = "GEOMETRIC_CENTER" -> 100
      [] location_type = "APPROXIMATE" -> 500
      [] OTHER -> 1000

\* _get_mapbox_accuracy
get_mapbox_accuracy(place_type) ==
    CASE place_type = "address" -> 20
      [] place_type = "poi" -> 50
      [] place_type = "neighborhood" -> 500
      [] place_type = "postcode" -> 1000
      [] place_type = "place" -> 5000
      [] place_type = "region" -> 10000
      [] place_type = "country" -> 100000
      [] OTHER -> 1000

\* accuracy_meters of an OK result of an external provider
ExternalAccuracy(provider) ==
    CASE provider = "nominatim" -> 20
      [] provider = "google" -> get_google_accuracy("ROOFTOP")
      [] provider = "mapbox" -> get_mapbox_accuracy("address")

\* f"API_{self.provider.upper()}"
GeocodeSource(provider) ==
    CASE provider = "nominatim" -> "API_NOMINATIM"
      [] provider = "google" -> "API_GOOGLE"
      [] provider = "mapbox" -> "API_MAPBOX"
      [] provider = "here" -> "API_HERE"
      [] provider = "arcgis" -> "API_ARCGIS"
      [] provider = "test" -> "API_TEST"

\* One entry of the results list of _process_asset_batch
Result(asset_id, status, lat, lng, accuracy, provider) ==
    [asset_id |-> asset_id, status |-> status, latitude |-> lat,
     longitude |-> lng, accuracy_meters |-> accuracy,
     geocode_source |-> GeocodeSource(provider)]

VARIABLES
    bg,                 \* the BatchGeocoder: provider, rate_limit, batch_size
    asset_store,        \* data/assets.xlsx
    geodata,            \* the AssetGeodata table of data/asset_geodata.xlsx
    metadata_sheet,     \* the Metadata sheet
    allowed_sheet,      \* the AllowedValues sheet
    writer_truncates,   \* whether opening an ExcelWriter empties the file at once
    rng,                \* the state of the random module, shared by all threads
    run_pc,             \* "idle", "collect", "merge_prepare", "merge_read",
                        \* "merge_write", "done"
    run_args,           \* assets, max_assets, workers
    assets,             \* the local assets after truncation
    batches,            \* the local batches
    task_pc,            \* per chunk-task: "queued", "sleep", "call", "t_lat",
                        \* "t_lng", "t_acc", "done"
    task_idx,           \* per chunk-task: the position in its batch
    task_results,       \* per chunk-task: the local results
    task_tmp,           \* per chunk-task: lat and lng inside _geocode_test
    future_idx,         \* the future the main thread waits for
    all_results,        \* the local all_results
    successful_updates, \* the local of _update_geodata_with_results
    geodata_df,         \* the table in memory during the merge
    success_count,      \* the local success_count of the merge
    run_result,         \* the pair run_geocoding_batch returns
    geodata_before,     \* the persisted table when the run was called
    store_writes,       \* number of writes of the geodata file in this run
    provider_calls,     \* number of provider calls of this run
    merge_outcome,      \* "none", "refused", "read_failed", "write_failed",
                        \* "nothing_to_write", "written"
    finish_order,       \* the chunk-tasks in the order they finished
    task_events,        \* per chunk-task: its sleeps, provider calls and their
                        \* returns, in order
    work_after          \* what identify_assets_needing_geocoding returns when
                        \* it is called after the run

batchVars ==
    <<bg, asset_store, geodata, metadata_sheet, allowed_sheet, writer_truncates,
      rng, run_pc, run_args, assets, batches, task_pc, task_idx, task_results,
      task_tmp, future_idx, all_results, successful_updates, geodata_df,
      success_count, run_result, geodata_before, store_writes, provider_calls,
      merge_outcome, finish_order, task_events, work_after>>

\* identify_assets_needing_geocoding not called yet after the run
NotIdentified == [called |-> FALSE, items |-> <<>>]

Sheet(exists, index_columns) == [exists |-> exists, index_columns |-> index_columns]

\* A geocoder that is never run
BatchInitAtRest ==
    /\ bg = [provider |-> "test", rate_limit |-> 1, batch_size |-> 1]
    /\ asset_store = [readable |-> FALSE, rows |-> <<>>]
    /\ geodata = <<>>
    /\ metadata_sheet = Sheet(TRUE, 0)
    /\ allowed_sheet = Sheet(TRUE, 0)
    /\ writer_truncates = FALSE
    /\ rng = [seed |-> 0, pos |-> 0]
    /\ run_pc = "idle"
    /\ run_args = None
    /\ assets = <<>>
    /\ batches = <<>>
    /\ task_pc = <<>>
    /\ task_idx = <<>>
    /\ task_results = <<>>
    /\ task_tmp = <<>>
    /\ future_idx = 0
    /\ all_results = <<>>
    /\ successful_updates = <<>>
    /\ geodata_df = <<>>
    /\ success_count = 0
    /\ run_result = None
    /\ geodata_before = <<>>
    /\ store_writes = 0
    /\ provider_calls = 0
    /\ merge_outcome = "none"
    /\ finish_order = <<>>
    /\ task_events = <<>>
    /\ work_after = NotIdentified

BatchInit ==
    /\ bg \in [provider : Providers, rate_limit : {1}, batch_size : 1..MaxBatchSize]
    /\ asset_store \in AssetStores
    /\ geodata \in GeodataTables
    /\ metadata_sheet = Sheet(TRUE, 0)
    /\ allowed_sheet = Sheet(TRUE, 0)
    /\ writer_truncates \in BOOLEAN
    /\ rng = [seed |-> 0, pos |-> 0]
    /\ run_pc = "idle"
    /\ run_args = None
    /\ assets = <<>>
    /\ batches = <<>>
    /\ task_pc = <<>>
    /\ task_idx = <<>>
    /\ task_results = <<>>
    /\ task_tmp = <<>>
    /\ future_idx = 0
    /\ all_results = <<>>
    /\ successful_updates = <<>>
    /\ geodata_df = <<>>
    /\ success_count = 0
    /\ run_result = None
    /\ geodata_before = <<>>
    /\ store_writes = 0
    /\ provider_calls = 0
    /\ merge_outcome = "none"
    /\ finish_order = <<>>
    /\ task_events = <<>>
    /\ work_after = NotIdentified

\* The arguments of run_geocoding_batch
RunArgs ==
    [assets : [given : {TRUE}, value : SuppliedAssets] \cup {[given |-> FALSE]},
     max_assets : [given : {TRUE}, value : {0, 2}] \cup {[given |-> FALSE]},
     workers : 1..MaxWorkers]

\* run_geocoding_batch up to the submission of the chunk-tasks: lines 313-335
RunCall(args) ==
    LET found == IF args.assets.given THEN args.assets.value
                 ELSE identify_assets_needing_geocoding(asset_store, geodata)
        limited == IF args.max_assets.given
                   THEN Truncate(found, args.max_assets.value) ELSE found
        bs == Batches(limited, bg.batch_size)
    IN  /\ run_pc = "idle"
        /\ run_args' = args
        /\ assets' = limited
        /\ geodata_before' = geodata
        /\ IF limited = <<>>
           THEN /\ run_pc' = "done"
                /\ run_result' = <<0, 0>>
                /\ UNCHANGED <<batches, task_pc, task_idx, task_results,
                               task_tmp, future_idx, task_events>>
           ELSE /\ run_pc' = "collect"
                /\ batches' = bs
                /\ task_pc' = [k \in 1..Len(bs) |-> "queued"]
                /\ task_idx' = [k \in 1..Len(bs) |-> 1]
                /\ task_results' = [k \in 1..Len(bs) |-> <<>>]
                /\ task_tmp' = [k \in 1..Len(bs) |-> <<>>]
                /\ task_events' = [k \in 1..Len(bs) |-> <<>>]
                /\ future_idx' = 1
                /\ UNCHANGED run_result
        /\ UNCHANGED <<bg, asset_store, geodata, metadata_sheet, allowed_sheet,
                       writer_truncates, rng, all_results, successful_updates,
                       geodata_df, success_count, store_writes, provider_calls,
                       merge_outcome, persisted_log,
                       finish_order, work_after>>

Running(k) == task_pc[k] \notin {"queued", "done"}

\* A pool thread takes the oldest queued chunk-task when fewer than workers run
TaskStart(k) ==
    /\ run_pc = "collect"
    /\ k \in 1..Len(task_pc)
    /\ task_pc[k] = "queued"
    /\ \A j \in 1..(k - 1) : task_pc[j] # "queued"
    /\ Cardinality({ j \in 1..Len(task_pc) : Running(j) }) < run_args.workers
    /\ task_pc' = [task_pc EXCEPT ![k] = "sleep"]
    /\ UNCHANGED <<bg, asset_store, geodata, metadata_sheet, allowed_sheet,
                   writer_truncates, rng, run_pc, run_args, assets, batches,
                   task_idx, task_results, task_tmp, future_idx, all_results,
                   successful_updates, geodata_df, success_count, run_result,
                   geodata_before, store_writes, provider_calls, merge_outcome, persisted_log,
                   finish_order, task_events, work_after>>

\* time.sleep(self.rate_limit) returns: line 230
TaskSleep(k) ==
    /\ k \in 1..Len(task_pc)
    /\ task_pc[k] = "sleep"
    /\ task_pc' = [task_pc EXCEPT ![k] = "call"]
    /\ task_events' = [task_events EXCEPT ![k] = Append(@, "sleep")]
    /\ UNCHANGED <<bg, asset_store, geodata, metadata_sheet, allowed_sheet,
                   writer_truncates, rng, run_pc, run_args, assets, batches,
                   task_idx, task_results, task_tmp, future_idx, all_results,
                   successful_updates, geodata_df, success_count, run_result,
                   geodata_before, store_writes, provider_calls, merge_outcome, persisted_log,
                   finish_order, work_after>>

\* The for loop left at the first result that is not OK
TaskAppend_stop_on_failure(k, result) ==
    /\ task_results' = [task_results EXCEPT ![k] = Append(@, result)]
    /\ task_idx' = [task_idx EXCEPT ![k] = @ + 1]
    /\ task_pc' = [task_pc EXCEPT ![k] =
                      IF result.status = "OK" /\ task_idx[k] < Len(batches[k])
                      THEN "sleep" ELSE "done"]
    /\ provider_calls' = provider_calls + 1
    /\ finish_order' = IF result.status = "OK" /\ task_idx[k] < Len(batches[k])
                       THEN finish_order ELSE Append(finish_order, k)

\* The for loop going to the next provider call without the sleep
TaskAppend_no_sleep(k, result) ==
    /\ task_results' = [task_results EXCEPT ![k] = Append(@, result)]
    /\ task_idx' = [task_idx EXCEPT ![k] = @ + 1]
    /\ task_pc' = [task_pc EXCEPT ![k] =
                      IF task_idx[k] < Len(batches[k]) THEN "call" ELSE "done"]
    /\ provider_calls' = provider_calls + 1
    /\ finish_order' = IF task_idx[k] < Len(batches[k]) THEN finish_order
                       ELSE Append(finish_order, k)

\* results.append({...}) and the step of the for loop: lines 241-246
TaskAppend(k, result) ==
    /\ task_results' = [task_results EXCEPT ![k] = Append(@, result)]
    /\ task_idx' = [task_idx EXCEPT ![k] = @ + 1]
    /\ task_pc' = [task_pc EXCEPT ![k] =
                      IF task_idx[k] < Len(batches[k]) THEN "sleep" ELSE "done"]
    /\ provider_calls' = provider_calls + 1
    /\ finish_order' = IF task_idx[k] < Len(batches[k]) THEN finish_order
                       ELSE Append(finish_order, k)

CurrentAsset(k) == batches[k][task_idx[k]]

\* geocode_location with nominatim, google or mapbox: lines 232-244
TaskCallExternal(k, outcome) ==
    /\ k \in 1..Len(task_pc)
    /\ task_pc[k] = "call"
    /\ bg.provider \in {"nominatim", "google", "mapbox"}
    /\ outcome \in ExternalOutcomes(bg.provider)
    /\ TaskAppend(k, Result(CurrentAsset(k).asset_id, outcome.status,
                            outcome.latitude, outcome.longitude,
                            IF outcome.status = "OK"
                            THEN ExternalAccuracy(bg.provider) ELSE NaN,
                            bg.provider))
    /\ task_events' = [task_events EXCEPT ![k] = @ \o <<"call", "return">>]
    /\ UNCHANGED <<bg, asset_store, geodata, metadata_sheet, allowed_sheet,
                   writer_truncates, rng, run_pc, run_args, assets, batches,
                   task_tmp, future_idx, all_results, successful_updates,
                   geodata_df, success_count, run_result, geodata_before,
                   store_writes, merge_outcome, persisted_log,
                   work_after>>

\* geocode_location with here or arcgis: lines 173-181, 232-244
TaskCallUnsupported(k) ==
    /\ k \in 1..Len(task_pc)
    /\ task_pc[k] = "call"
    /\ bg.provider \in {"here", "arcgis"}
    /\ TaskAppend(k, Result(CurrentAsset(k).asset_id, "NOT_IMPLEMENTED",
                            NaN, NaN, NaN, bg.provider))
    /\ task_events' = [task_events EXCEPT ![k] = @ \o <<"call", "return">>]
    /\ UNCHANGED <<bg, asset_store, geodata, metadata_sheet, allowed_sheet,
                   writer_truncates, rng, run_pc, run_args, assets, batches,
                   task_tmp, future_idx, all_results, successful_updates,
                   geodata_df, success_count, run_result, geodata_before,
                   store_writes, merge_outcome, persisted_log,
                   work_after>>

\* _geocode_test, random.seed(hash_val): lines 189-190
TaskTestSeed(k) ==
    /\ k \in 1..Len(task_pc)
    /\ task_pc[k] = "call"
    /\ bg.provider = "test"
    /\ rng' = [seed |-> HashOf(CurrentAsset(k).location_description), pos |-> 0]
    /\ task_pc' = [task_pc EXCEPT ![k] = "t_lat"]
    /\ task_events' = [task_events EXCEPT ![k] = Append(@, "call")]
    /\ UNCHANGED <<bg, asset_store, geodata, metadata_sheet, allowed_sheet,
                   writer_truncates, run_pc, run_args, assets, batches,
                   task_idx, task_results, task_tmp, future_idx, all_results,
                   successful_updates, geodata_df, success_count, run_result,
                   geodata_before, store_writes, provider_calls, merge_outcome, persisted_log,
                   finish_order, work_after>>

\* _geocode_test, one draw from the shared generator: lines 193, 194
TaskTestDraw(k) ==
    /\ k \in 1..Len(task_pc)
    /\ task_pc[k] \in {"t_lat", "t_lng"}
    /\ task_tmp' = [task_tmp EXCEPT ![k] = Append(@, RandomValue(rng.seed, rng.pos))]
    /\ rng' = [rng EXCEPT !.pos = @ + 1]
    /\ task_pc' = [task_pc EXCEPT ![k] = IF @ = "t_lat" THEN "t_lng" ELSE "t_acc"]
    /\ UNCHANGED <<bg, asset_store, geodata, metadata_sheet, allowed_sheet,
                   writer_truncates, run_pc, run_args, assets, batches,
                   task_idx, task_results, future_idx, all_results,
                   successful_updates, geodata_df, success_count, run_result,
                   geodata_before, store_writes, provider_calls, merge_outcome, persisted_log,
                   finish_order, task_events, work_after>>

\* _geocode_test, random.choice and the return: lines 196-202, 232-244
TaskTestReturn(k) ==
    /\ k \in 1..Len(task_pc)
    /\ task_pc[k] = "t_acc"
    /\ TaskAppend(k, Result(CurrentAsset(k).asset_id, "OK", task_tmp[k][1],
                            task_tmp[k][2], RandomValue(rng.seed, rng.pos),
                            bg.provider))
    /\ rng' = [rng EXCEPT !.pos = @ + 1]
    /\ task_tmp' = [task_tmp EXCEPT ![k] = <<>>]
    /\ task_events' = [task_events EXCEPT ![k] = Append(@, "return")]
    /\ UNCHANGED <<bg, asset_store, geodata, metadata_sheet, allowed_sheet,
                   writer_truncates, run_pc, run_args, assets, batches,
                   future_idx, all_results, successful_updates, geodata_df,
                   success_count, run_result, geodata_before, store_writes,
                   merge_outcome, persisted_log,
                   work_after>>

\* future.result() returning as soon as the chunk-task has been started
FutureDone_started(k) == task_pc[k] # "queued"

\* future.result() returns once the chunk-task has finished
FutureDone(k) == task_pc[k] = "done"

\* One pass of "for future in batch_futures"; leaving the with block after the
\* last pass joins the pool threads: lines 337-343
CollectFuture ==
    /\ run_pc = "collect"
    /\ future_idx \in 1..Len(task_pc)
    /\ FutureDone(future_idx)
    /\ all_results' = all_results \o task_results[future_idx]
    /\ future_idx' = future_idx + 1
    /\ run_pc' = IF future_idx = Len(task_pc) THEN "merge_prepare" ELSE "collect"
    /\ UNCHANGED <<bg, asset_store, geodata, metadata_sheet, allowed_sheet,
                   writer_truncates, rng, run_args, assets, batches, task_pc,
                   task_idx, task_results, task_tmp, successful_updates,
                   geodata_df, success_count, run_result, geodata_before,
                   store_writes, provider_calls, merge_outcome, persisted_log,
                   finish_order, task_events, work_after>>

\* update_data without the longitude of the result
UpdateData_without_longitude(result) ==
    GeoRow(result.asset_id, result.latitude, NaN,
           result.geocode_source, "UNVERIFIED")

\* update_data of one OK result: lines 365-372
UpdateData(result) ==
    GeoRow(result.asset_id, result.latitude, result.longitude,
           result.geocode_source, "UNVERIFIED")

\* The loop over results without the test of the status
SuccessfulUpdates_ignore_status(results) ==
    [i \in 1..Len(results) |-> UpdateData(results[i])]

RECURSIVE SuccessfulUpdates(_)
\* The loop over results: lines 361-381
SuccessfulUpdates(results) ==
    IF results = <<>> THEN <<>>
    ELSE LET front == SuccessfulUpdates(SubSeq(results, 1, Len(results) - 1))
             last == results[Len(results)]
         IN  IF last.status = "OK" THEN Append(front, UpdateData(last)) ELSE front

\* One pass of the loop that appends a row whether or not the id is present
ApplyUpdate_always_append(df, update) == Append(df, update)

\* One pass of the loop over successful_updates: lines 404-415
ApplyUpdate(df, update) ==
    IF \A i \in 1..Len(df) : df[i].asset_id # update.asset_id
    THEN Append(df, update)
    ELSE [i \in 1..Len(df) |->
             IF df[i].asset_id = update.asset_id THEN update ELSE df[i]]

\* The loop over successful_updates left after its first pass
ApplyUpdates_first_only(df, updates) ==
    IF updates = <<>> THEN df ELSE ApplyUpdate(df, updates[1])

RECURSIVE ApplyUpdates(_, _)
ApplyUpdates(df, updates) ==
    IF updates = <<>> THEN df
    ELSE ApplyUpdates(ApplyUpdate(df, updates[1]), SubSeq(updates, 2, Len(updates)))

\* The return of run_geocoding_batch: lines 343-346
RunReturn(count) ==
    /\ run_result' = <<count, Len(assets)>>
    /\ run_pc' = "done"

\* _update_geodata_with_results up to prepare_for_enrichment: lines 358-387
MergePrepare(ready) ==
    /\ run_pc = "merge_prepare"
    /\ successful_updates' = SuccessfulUpdates(all_results)
    /\ IF ready
       THEN /\ run_pc' = "merge_read"
            /\ UNCHANGED <<run_result, merge_outcome>>
       ELSE /\ RunReturn(0)
            /\ merge_outcome' = "refused"
    /\ UNCHANGED <<bg, asset_store, geodata, metadata_sheet, allowed_sheet,
                   writer_truncates, rng, run_args, assets, batches, task_pc,
                   task_idx, task_results, task_tmp, future_idx, all_results,
                   geodata_df, success_count, geodata_before, store_writes,
                   provider_calls, persisted_log,
                   finish_order, task_events, work_after>>

\* The table is read and the updates are applied in memory; ok is false when
\* read_excel or the processing raises: lines 390-417, 438-440
MergeRead(ok) ==
    /\ run_pc = "merge_read"
    /\ IF ok
       THEN /\ geodata_df' = ApplyUpdates(geodata, successful_updates)
            /\ success_count' = Len(successful_updates)
            /\ run_pc' = "merge_write"
            /\ UNCHANGED <<run_result, merge_outcome>>
       ELSE /\ RunReturn(0)
            /\ merge_outcome' = "read_failed"
            /\ UNCHANGED <<geodata_df, success_count>>
    /\ UNCHANGED <<bg, asset_store, geodata, metadata_sheet, allowed_sheet,
                   writer_truncates, rng, run_args, assets, batches, task_pc,
                   task_idx, task_results, task_tmp, future_idx, all_results,
                   successful_updates, geodata_before, store_writes,
                   provider_calls, persisted_log,
                   finish_order, task_events, work_after>>

\* A sheet copied inside the writer block: lines 426-432.  When the writer
\* has emptied the file the sheet cannot be read and is not written; otherwise
\* it is written back with one more index column
CopiedSheet(sheet) ==
    IF writer_truncates \/ ~sheet.exists THEN Sheet(FALSE, 0)
    ELSE Sheet(TRUE, sheet.index_columns + 1)

\* The table the ExcelWriter block persists: line 423
WrittenTable(df) == df

\* The file is written when there is something to write; writeOk is false
\* when the ExcelWriter cannot open the file: lines 420-440
MergeWrite(writeOk) ==
    /\ run_pc = "merge_write"
    /\ IF success_count > 0
       THEN IF writeOk
            THEN /\ geodata' = WrittenTable(geodata_df)
                 /\ metadata_sheet' = CopiedSheet(metadata_sheet)
                 /\ allowed_sheet' = CopiedSheet(allowed_sheet)
                 /\ persisted_log' = <<>>
                 /\ store_writes' = store_writes + 1
                 /\ merge_outcome' = "written"
                 /\ RunReturn(success_count)
            ELSE /\ merge_outcome' = "write_failed"
                 /\ RunReturn(0)
                 /\ UNCHANGED <<geodata, metadata_sheet, allowed_sheet,
                                persisted_log, store_writes>>
       ELSE /\ merge_outcome' = "nothing_to_write"
            /\ RunReturn(success_count)
            /\ UNCHANGED <<geodata, metadata_sheet, allowed_sheet,
                           persisted_log, store_writes>>
    /\ UNCHANGED <<bg, asset_store, writer_truncates, rng, run_args, assets,
                   batches, task_pc, task_idx, task_results, task_tmp,
                   future_idx, all_results, successful_updates, geodata_df,
                   success_count, geodata_before, provider_calls,
                   finish_order, task_events, work_after>>

\* identify_assets_needing_geocoding called once more after the run has
\* returned: lines 248-299
IdentifyAfterRun ==
    /\ run_pc = "done"
    /\ ~work_after.called
    /\ work_after' = [called |-> TRUE,
                      items |-> identify_assets_needing_geocoding(asset_store, geodata)]
    /\ UNCHANGED <<bg, asset_store, geodata, metadata_sheet, allowed_sheet,
                   writer_truncates, rng, run_pc, run_args, assets, batches,
                   task_pc, task_idx, task_results, task_tmp, future_idx,
                   all_results, successful_updates, geodata_df, success_count,
                   run_result, geodata_before, store_writes, provider_calls,
                   merge_outcome, persisted_log, finish_order, task_events>>

(***************************************************************************)
(* The pure functions of RetryStrategy and _categorize_error, applied to   *)
(* arguments drawn from bounded sets.                                      *)
(***************************************************************************)
VARIABLES
    fn_pc,        \* "input", then the name of the function that was applied
    fn_strategy,  \* the RetryStrategy
    fn_attempt,   \* the attempt argument
    fn_error,     \* the error argument
    fn_retry,     \* what should_retry returned
    fn_category,  \* the category _categorize_error returned
    fn_message,   \* the message _categorize_error returned
    fn_delay,     \* what get_retry_delay(attempt) returned
    fn_delay_next \* what get_retry_delay(attempt + 1) returned

pureVars ==
    <<fn_pc, fn_strategy, fn_attempt, fn_error, fn_retry, fn_category,
      fn_message, fn_delay, fn_delay_next>>

AllErrors == [type : ErrorTypes, msg : Messages, id : {1}]

PureInit ==
    /\ fn_pc = "input"
    /\ fn_strategy \in Strategies \cup DelayStrategies
    /\ fn_attempt \in (-1..MaxAttemptArg) \cup {LargeAttempt}
    /\ fn_error \in AllErrors
    /\ fn_retry = FALSE
    /\ fn_category = None
    /\ fn_message = None
    /\ fn_delay = 0
    /\ fn_delay_next = 0

\* A geocoder and a logger on which nothing is called
PureInitAtRest ==
    /\ fn_pc = "input"
    /\ fn_strategy = DefaultStrategy
    /\ fn_attempt = 0
    /\ fn_error = [type |-> "ValueError", msg |-> "MsgOther", id |-> 1]
    /\ fn_retry = FALSE
    /\ fn_category = None
    /\ fn_message = None
    /\ fn_delay = 0
    /\ fn_delay_next = 0

\* retry_strategy.should_retry(attempt, error)
ShouldRetryCall ==
    /\ fn_pc = "input"
    /\ fn_retry' = should_retry(fn_strategy, fn_attempt, fn_error)
    /\ fn_pc' = "should_retry"
    /\ UNCHANGED <<fn_strategy, fn_attempt, fn_error, fn_category, fn_message,
                   fn_delay, fn_delay_next>>

\* _categorize_error(error)
CategorizeCall ==
    /\ fn_pc = "input"
    /\ fn_category' = categorize_error(fn_error).error_category
    /\ fn_message' = categorize_error(fn_error).error_message
    /\ fn_pc' = "categorize_error"
    /\ UNCHANGED <<fn_strategy, fn_attempt, fn_error, fn_retry, fn_delay,
                   fn_delay_next>>

\* retry_strategy.get_retry_delay(attempt), then get_retry_delay(attempt + 1)
GetRetryDelayCall ==
    /\ fn_pc = "input"
    /\ fn_delay' \in get_retry_delay(fn_strategy, fn_attempt)
    /\ fn_delay_next' \in get_retry_delay(fn_strategy, fn_attempt + 1)
    /\ fn_pc' = "get_retry_delay"
    /\ UNCHANGED <<fn_strategy, fn_attempt, fn_error, fn_retry, fn_category,
                   fn_message>>

PureNext == ShouldRetryCall \/ CategorizeCall \/ GetRetryDelayCall

(***************************************************************************)
(* GeocodeLogger called directly: log_attempt, flush_logs and              *)
(* generate_summary on one logger, one call at a time.                     *)
(***************************************************************************)
MaxLogCalls == 3

VARIABLES
    lg_calls,    \* number of calls made on the logger
    lg_last,     \* the last call: its name, whether its reads and writes
                 \* completed, and the buffer and the table before it
    lg_summary,  \* what the last generate_summary returned
    lg_logged,   \* every record handed to the logger so far, in order
    lg_read_failed,  \* whether a flush wrote the table after its read had failed
    lg_write_failed  \* whether the write of a flush has failed

loggerVars ==
    <<lg_calls, lg_last, lg_summary, lg_logged, lg_read_failed, lg_write_failed>>

\* The arguments of the log_attempt calls
LoggerEntries ==
    { LogEntry(a, "addr", "geocode", o.attempt, o.status, "test",
               o.error_category, o.error_message, o.retry_delay) :
        a \in {"A1", "A2"},
        o \in { [attempt |-> 1, status |-> "retry", error_category |-> "RATE_LIMIT",
                 error_message |-> "MsgRateLimit", retry_delay |-> 4],
                [attempt |-> 2, status |-> "success", error_category |-> None,
                 error_message |-> None, retry_delay |-> NoDelay],
                [attempt |-> 1, status |-> "failed", error_category |-> "NOT_FOUND",
                 error_message |-> "MsgNotFound", retry_delay |-> NoDelay] } }

NoCall ==
    [op |-> "none", readOk |-> TRUE, writeOk |-> TRUE,
     logs_before |-> <<>>, persisted_before |-> <<>>]

NoSummary == [kind |-> "none"]

LoggerInitAtRest ==
    /\ lg_calls = 0
    /\ lg_last = NoCall
    /\ lg_summary = NoSummary
    /\ lg_logged = <<>>
    /\ lg_read_failed = FALSE
    /\ lg_write_failed = FALSE

\* A logger whose buffer is empty or one record short of the flush threshold,
\* on a workbook whose GeocodeLog table is empty or holds one record
LoggerInit ==
    /\ lg_calls = 0
    /\ lg_last = NoCall
    /\ lg_summary = NoSummary
    /\ logs \in {<<>>, EarlierEntries(FlushThreshold - 1)}
    /\ persisted_log \in {<<>>, EarlierEntries(1)}
    /\ lg_logged = persisted_log \o logs
    /\ lg_read_failed = FALSE
    /\ lg_write_failed = FALSE

\* Whether the write of flush_logs on buffer buf fails
WriteFailure(buf, writeOk) == buf # <<>> /\ ~writeOk

\* Whether flush_logs on buffer buf replaces the table after a failed read
ReadFailure(buf, readOk, writeOk) == buf # <<>> /\ ~readOk /\ writeOk

Call(op, readOk, writeOk) ==
    [op |-> op, readOk |-> readOk, writeOk |-> writeOk,
     logs_before |-> logs, persisted_before |-> persisted_log]

\* logger.log_attempt(...): lines 167-184
LogAttemptCall(entry, readOk, writeOk) ==
    LET after == log_attempt(logs, persisted_log, entry, readOk, writeOk)
    IN  /\ lg_calls < MaxLogCalls
        /\ Len(logs) + 1 < FlushThreshold => (readOk /\ writeOk)
        /\ logs' = after.logs
        /\ persisted_log' = after.persisted
        /\ lg_last' = Call("log_attempt", readOk, writeOk)
        /\ lg_calls' = lg_calls + 1
        /\ lg_logged' = Append(lg_logged, entry)
        /\ lg_read_failed' =
               (lg_read_failed \/ (Len(logs) + 1 >= FlushThreshold
                                      /\ ReadFailure(Append(logs, entry), readOk, writeOk)))
        /\ lg_write_failed' =
               (lg_write_failed \/ (Len(logs) + 1 >= FlushThreshold /\ ~writeOk))
        /\ UNCHANGED lg_summary

\* logger.flush_logs(): lines 186-215
FlushLogsCall(readOk, writeOk) ==
    LET after == flush_logs(logs, persisted_log, readOk, writeOk)
    IN  /\ lg_calls < MaxLogCalls
        /\ logs = <<>> => (readOk /\ writeOk)
        /\ logs' = after.logs
        /\ persisted_log' = after.persisted
        /\ lg_last' = Call("flush_logs", readOk, writeOk)
        /\ lg_calls' = lg_calls + 1
        /\ lg_read_failed' = (lg_read_failed \/ ReadFailure(logs, readOk, writeOk))
        /\ lg_write_failed' = (lg_write_failed \/ WriteFailure(logs, writeOk))
        /\ UNCHANGED <<lg_summary, lg_logged>>

StatusCount(records, status) ==
    Cardinality({ i \in 1..Len(records) : records[i].status = status })

\* logs[logs['error_category'].notna()]['error_category'].value_counts()
CategoryCounts(records) ==
    LET present == { records[i].error_category : i \in
                       { j \in 1..Len(records) : records[j].error_category # None } }
    IN  [c \in present |->
            Cardinality({ i \in 1..Len(records) : records[i].error_category = c })]

\* logs['provider'].value_counts()
ProviderCounts(records) ==
    [p \in { records[i].provider : i \in 1..Len(records) } |->
        Cardinality({ i \in 1..Len(records) : records[i].provider = p })]

RECURSIVE SumOf(_, _)
SumOf(f, S) ==
    IF S = {} THEN 0
    ELSE LET x == CHOOSE y \in S : TRUE IN f[x] + SumOf(f, S \ {x})

\* The mean of the attempt column over all records
AverageAttempts_over_records(records) ==
    [sum |-> SumOf([i \in 1..Len(records) |-> records[i].attempt], 1..Len(records)),
     count |-> Len(records)]

\* logs.groupby('asset_id')['attempt'].max().mean(), as the sum of the group
\* maxima and the number of groups (the mean is their quotient, NaN for none)
AverageAttempts(records) ==
    LET ids == { records[i].asset_id : i \in 1..Len(records) }
        group_max == [a \in ids |->
            CHOOSE n \in { records[i].attempt : i \in
                             { j \in 1..Len(records) : records[j].asset_id = a } } :
                \A i \in 1..Len(records) :
                    records[i].asset_id = a => records[i].attempt <= n]
    IN  [sum |-> SumOf(group_max, ids), count |-> Cardinality(ids)]

\* The summary dictionary: lines 234-242
Summary(records) ==
    [kind |-> "summary",
     total_operations |-> Len(records),
     successful_operations |-> StatusCount(records, "success"),
     failed_operations |-> StatusCount(records, "failed"),
     retry_operations |-> StatusCount(records, "retry"),
     most_common_errors |-> CategoryCounts(records),
     average_attempts |-> AverageAttempts(records),
     operations_by_provider |-> ProviderCounts(records)]

\* The dictionary returned when generate_summary fails: lines 246-251
SummaryError == [kind |-> "error", error |-> "Failed to generate summary"]

\* logger.generate_summary(): lines 217-251; summaryReadOk says whether the
\* read_excel of line 231 completes
GenerateSummaryCall(readOk, writeOk, summaryReadOk) ==
    LET after == flush_logs(logs, persisted_log, readOk, writeOk)
    IN  /\ lg_calls < MaxLogCalls
        /\ logs = <<>> => (readOk /\ writeOk)
        /\ logs' = after.logs
        /\ persisted_log' = after.persisted
        /\ lg_summary' = IF summaryReadOk THEN Summary(after.persisted)
                         ELSE SummaryError
        /\ lg_last' = Call("generate_summary", readOk, writeOk)
        /\ lg_calls' = lg_calls + 1
        /\ lg_read_failed' = (lg_read_failed \/ ReadFailure(logs, readOk, writeOk))
        /\ lg_write_failed' = (lg_write_failed \/ WriteFailure(logs, writeOk))
        /\ UNCHANGED lg_logged

LoggerNext ==
    \/ \E entry \in LoggerEntries, readOk \in BOOLEAN, writeOk \in BOOLEAN :
           LogAttemptCall(entry, readOk, writeOk)
    \/ \E readOk \in BOOLEAN, writeOk \in BOOLEAN : FlushLogsCall(readOk, writeOk)
    \/ \E readOk \in BOOLEAN, writeOk \in BOOLEAN, summaryReadOk \in BOOLEAN :
           GenerateSummaryCall(readOk, writeOk, summaryReadOk)

(***************************************************************************)
(* The Deterministic-Test provider called on its own, one call after the   *)
(* other, on the generator of the random module.                           *)
(***************************************************************************)
MaxProviderCalls == 4

VARIABLES
    gp_calls   \* the calls made so far: the address and the result of each

providerVars == <<gp_calls>>

ProviderInitAtRest == gp_calls = <<>>

Addresses == {"LocA", "LocB", "LocC"}

\* _geocode_test drawing from the generator as the earlier calls left it
geocode_test_unseeded(r, location_str) ==
    [result |-> [status |-> "OK",
                 latitude |-> RandomValue(r.seed, r.pos),
                 longitude |-> RandomValue(r.seed, r.pos + 1),
                 accuracy_meters |-> RandomValue(r.seed, r.pos + 2)],
     rng |-> [seed |-> r.seed, pos |-> r.pos + 3]]

\* _geocode_test run from its first to its last line by one thread, on the
\* generator in state r: lines 183-202
geocode_test(r, location_str) ==
    LET seeded == [seed |-> HashOf(location_str), pos |-> 0]
    IN  [result |-> [status |-> "OK",
                     latitude |-> RandomValue(seeded.seed, seeded.pos),
                     longitude |-> RandomValue(seeded.seed, seeded.pos + 1),
                     accuracy_meters |-> RandomValue(seeded.seed, seeded.pos + 2)],
         rng |-> [seed |-> seeded.seed, pos |-> seeded.pos + 3]]

\* geocoder._geocode_test(location_str)
GeocodeTestCall(location_str) ==
    LET call == geocode_test(rng, location_str)
    IN  /\ Len(gp_calls) < MaxProviderCalls
        /\ gp_calls' = Append(gp_calls, [address |-> location_str,
                                         result |-> call.result])
        /\ rng' = call.rng

ProviderNext == \E location_str \in Addresses : GeocodeTestCall(location_str)


(***************************************************************************)
(* GeocodeLogger shared by worker threads.  Each thread calls log_attempt  *)
(* a few times; the statements of log_attempt and flush_logs that read or  *)
(* write self.logs or the GeocodeLog table are the steps, interleaved      *)
(* freely; no read or write of the table fails.  When the threads are done *)
(* the main thread calls flush_logs.                                       *)
(***************************************************************************)
MaxThreadCalls == 2

LogThreads == {1, 2}

VARIABLES
    th_pc,        \* per thread: "idle", "test", "flush", "convert", "read",
                  \* "write", "clear"
    th_calls,     \* per thread: the log_attempt calls it has made
    th_log_df,    \* per thread: the local log_df of flush_logs
    th_combined,  \* per thread: the local combined_logs of flush_logs
    th_logged,    \* every record handed to log_attempt, in the order appended
    th_overlap,   \* whether a log_attempt call began during another one
    th_final      \* whether the final flush_logs has been made

threadVars ==
    <<th_pc, th_calls, th_log_df, th_combined, th_logged, th_overlap, th_final>>

ThreadInitAtRest ==
    /\ th_pc = [t \in LogThreads |-> "idle"]
    /\ th_calls = [t \in LogThreads |-> 0]
    /\ th_log_df = [t \in LogThreads |-> <<>>]
    /\ th_combined = [t \in LogThreads |-> <<>>]
    /\ th_logged = <<>>
    /\ th_overlap = FALSE
    /\ th_final = FALSE

\* The records logged before the threads start, all still in the buffer
BufferedBefore(n) ==
    [i \in 1..n |->
        LogEntry("A0", "addr0", "geocode", i, "success", "test", None, None, NoDelay)]

\* A logger whose buffer is one or two records short of the flush threshold,
\* on a workbook with an empty GeocodeLog table
ThreadInit ==
    /\ th_pc = [t \in LogThreads |-> "idle"]
    /\ th_calls = [t \in LogThreads |-> 0]
    /\ th_log_df = [t \in LogThreads |-> <<>>]
    /\ th_combined = [t \in LogThreads |-> <<>>]
    /\ th_overlap = FALSE
    /\ th_final = FALSE
    /\ \E n \in {FlushThreshold - 2, FlushThreshold - 1} :
          /\ logs = BufferedBefore(n)
          /\ th_logged = BufferedBefore(n)
    /\ persisted_log = <<>>

\* The record thread t logs in its c-th call
ThreadEntry(t, c) ==
    LogEntry(<<"A1", "A2">>[t], "addr", "geocode", c, "success", "test",
             None, None, NoDelay)

\* self.logs.append(log_entry): line 180
ThreadAppend(t) ==
    LET entry == ThreadEntry(t, th_calls[t] + 1)
    IN  /\ ~th_final
        /\ th_pc[t] = "idle"
        /\ th_calls[t] < MaxThreadCalls
        /\ logs' = Append(logs, entry)
        /\ th_logged' = Append(th_logged, entry)
        /\ th_calls' = [th_calls EXCEPT ![t] = @ + 1]
        /\ th_overlap' = (th_overlap \/ \E u \in LogThreads \ {t} : th_pc[u] # "idle")
        /\ th_pc' = [th_pc EXCEPT ![t] = "test"]
        /\ UNCHANGED <<persisted_log, th_log_df, th_combined, th_final>>

\* if len(self.logs) >= 50: line 183
ThreadTest(t) ==
    /\ th_pc[t] = "test"
    /\ th_pc' = [th_pc EXCEPT ![t] =
                    IF Len(logs) >= FlushThreshold THEN "flush" ELSE "idle"]
    /\ UNCHANGED <<logs, persisted_log, th_calls, th_log_df, th_combined,
                   th_logged, th_overlap, th_final>>

\* if not self.logs: return: lines 188-189
ThreadFlushEnter(t) ==
    /\ th_pc[t] = "flush"
    /\ th_pc' = [th_pc EXCEPT ![t] = IF logs = <<>> THEN "idle" ELSE "convert"]
    /\ UNCHANGED <<logs, persisted_log, th_calls, th_log_df, th_combined,
                   th_logged, th_overlap, th_final>>

\* log_df = pd.DataFrame(self.logs): line 194
ThreadConvert(t) ==
    /\ th_pc[t] = "convert"
    /\ th_log_df' = [th_log_df EXCEPT ![t] = logs]
    /\ th_pc' = [th_pc EXCEPT ![t] = "read"]
    /\ UNCHANGED <<logs, persisted_log, th_calls, th_combined, th_logged,
                   th_overlap, th_final>>

\* existing_logs is read and combined_logs built: lines 199-201
ThreadRead(t) ==
    /\ th_pc[t] = "read"
    /\ th_combined' = [th_combined EXCEPT ![t] = persisted_log \o th_log_df[t]]
    /\ th_pc' = [th_pc EXCEPT ![t] = "write"]
    /\ UNCHANGED <<logs, persisted_log, th_calls, th_log_df, th_logged,
                   th_overlap, th_final>>

\* The ExcelWriter block replaces the GeocodeLog sheet: lines 207-209
ThreadWrite(t) ==
    /\ th_pc[t] = "write"
    /\ persisted_log' = th_combined[t]
    /\ th_pc' = [th_pc EXCEPT ![t] = "clear"]
    /\ UNCHANGED <<logs, th_calls, th_log_df, th_combined, th_logged,
                   th_overlap, th_final>>

\* flush_logs returning without the reset of the buffer
ThreadClear_keeps_buffer(t) ==
    /\ th_pc[t] = "clear"
    /\ logs' = logs
    /\ th_pc' = [th_pc EXCEPT ![t] = "idle"]
    /\ UNCHANGED <<persisted_log, th_calls, th_log_df, th_combined, th_logged,
                   th_overlap, th_final>>

\* self.logs = []: line 212
ThreadClear(t) ==
    /\ th_pc[t] = "clear"
    /\ logs' = <<>>
    /\ th_pc' = [th_pc EXCEPT ![t] = "idle"]
    /\ UNCHANGED <<persisted_log, th_calls, th_log_df, th_combined, th_logged,
                   th_overlap, th_final>>

\* The main thread calls flush_logs once no thread is inside log_attempt
FinalFlush ==
    LET after == flush_logs(logs, persisted_log, TRUE, TRUE)
    IN  /\ ~th_final
        /\ \A t \in LogThreads : th_pc[t] = "idle"
        /\ \E t \in LogThreads : th_calls[t] > 0
        /\ logs' = after.logs
        /\ persisted_log' = after.persisted
        /\ th_final' = TRUE
        /\ UNCHANGED <<th_pc, th_calls, th_log_df, th_combined, th_logged,
                       th_overlap>>

ThreadNext ==
    \/ \E t \in LogThreads : ThreadAppend(t)
    \/ \E t \in LogThreads : ThreadTest(t)
    \/ \E t \in LogThreads : ThreadFlushEnter(t)
    \/ \E t \in LogThreads : ThreadConvert(t)
    \/ \E t \in LogThreads : ThreadRead(t)
    \/ \E t \in LogThreads : ThreadWrite(t)
    \/ \E t \in LogThreads : ThreadClear(t)
    \/ FinalFlush

\* The locals of with_retry
retryCallVars ==
    <<wr_pc, retry_strategy, wr_args, attempt, last_error, delay, invocations,
      call_records, slept, func_outcomes, wr_result, wr_raised>>

retryLocals ==
    <<wr_pc, retry_strategy, wr_args, attempt, last_error, delay, invocations,
      call_records, slept, func_outcomes, wr_result, wr_raised, logs>>

BatchNext ==
    /\ UNCHANGED <<retryLocals, pureVars, loggerVars, providerVars, threadVars>>
    /\ \/ \E args \in RunArgs : RunCall(args)
       \/ \E k \in 1..MaxTasks : TaskStart(k)
       \/ \E k \in 1..MaxTasks : TaskSleep(k)
       \/ \E k \in 1..MaxTasks, o \in ExternalOutcomes(bg.provider) : TaskCallExternal(k, o)
       \/ \E k \in 1..MaxTasks : TaskCallUnsupported(k)
       \/ \E k \in 1..MaxTasks : TaskTestSeed(k)
       \/ \E k \in 1..MaxTasks : TaskTestDraw(k)
       \/ \E k \in 1..MaxTasks : TaskTestReturn(k)
       \/ CollectFuture
       \/ \E ready \in BOOLEAN : MergePrepare(ready)
       \/ \E ok \in BOOLEAN : MergeRead(ok)
       \/ \E writeOk \in BOOLEAN : MergeWrite(writeOk)
       \/ IdentifyAfterRun

vars == <<retryVars, batchVars, pureVars, loggerVars, providerVars, threadVars>>

\* with_retry on a logger, the geocoder at rest
RetrySpecInit ==
    /\ RetryInit
    /\ BatchInitAtRest
    /\ PureInitAtRest
    /\ LoggerInitAtRest
    /\ ProviderInitAtRest
    /\ ThreadInitAtRest

RetrySpecNext ==
    RetryNext /\ UNCHANGED <<batchVars, pureVars, loggerVars, providerVars, threadVars>>

SpecRetry == RetrySpecInit /\ [][RetrySpecNext]_vars

\* An invocation of func ends: it returns or raises, and the pass of the loop
\* that made it runs to its log_attempt call
FuncEnds ==
    /\ \/ \E v \in Values, readOk, writeOk \in BOOLEAN : AttemptSuccess(v, readOk, writeOk)
       \/ \E tm \in RaisableErrors, readOk, writeOk \in BOOLEAN : AttemptRetry(tm, readOk, writeOk)
       \/ \E tm \in RaisableErrors, readOk, writeOk \in BOOLEAN : AttemptFailed(tm, readOk, writeOk)
    /\ UNCHANGED <<batchVars, pureVars, loggerVars, providerVars, threadVars>>

\* time.sleep returns
SleepEnds ==
    RetrySleep /\ UNCHANGED <<batchVars, pureVars, loggerVars, providerVars, threadVars>>

\* with_retry when every invocation of func and every sleep terminates; a
\* pass of the loop always counts an invocation and a sleep always moves the
\* call on, which is what the subscripts say
SpecRetryFair ==
    SpecRetry /\ WF_invocations(FuncEnds) /\ WF_wr_pc(SleepEnds)

\* The pure functions alone
PureSpecInit ==
    /\ PureInit
    /\ BatchInitAtRest
    /\ RetryInitAtRest
    /\ LoggerInitAtRest
    /\ ProviderInitAtRest
    /\ ThreadInitAtRest

PureSpecNext ==
    PureNext /\ UNCHANGED <<retryVars, batchVars, loggerVars, providerVars, threadVars>>

\* The logger alone
batchVarsButRng ==
    <<bg, asset_store, geodata, metadata_sheet, allowed_sheet, writer_truncates,
      run_pc, run_args, assets, batches, task_pc, task_idx, task_results,
      task_tmp, future_idx, all_results, successful_updates, geodata_df,
      success_count, run_result, geodata_before, store_writes, provider_calls,
      merge_outcome, finish_order, task_events, work_after>>

LoggerSpecInit ==
    /\ LoggerInit
    /\ wr_pc = "idle"
    /\ retry_strategy = NoStrategy
    /\ wr_args = NoArgs
    /\ attempt = 0
    /\ last_error = NoError
    /\ delay = NoDelay
    /\ invocations = 0
    /\ call_records = <<>>
    /\ slept = <<>>
    /\ func_outcomes = <<>>
    /\ wr_result = None
    /\ wr_raised = NoError
    /\ BatchInitAtRest
    /\ PureInitAtRest
    /\ ProviderInitAtRest
    /\ ThreadInitAtRest

LoggerSpecNext ==
    LoggerNext /\ UNCHANGED <<retryCallVars, batchVars, pureVars, providerVars, threadVars>>

SpecLogger == LoggerSpecInit /\ [][LoggerSpecNext]_vars

\* The Deterministic-Test provider alone
ProviderSpecInit ==
    /\ ProviderInitAtRest
    /\ BatchInitAtRest
    /\ RetryInitAtRest
    /\ PureInitAtRest
    /\ LoggerInitAtRest
    /\ ThreadInitAtRest

ProviderSpecNext ==
    ProviderNext
    /\ UNCHANGED <<retryVars, batchVarsButRng, pureVars, loggerVars, threadVars>>

SpecProvider == ProviderSpecInit /\ [][ProviderSpecNext]_vars

\* The logger shared by threads; with_retry and the geocoder at rest
ThreadSpecInit ==
    /\ ThreadInit
    /\ wr_pc = "idle"
    /\ retry_strategy = NoStrategy
    /\ wr_args = NoArgs
    /\ attempt = 0
    /\ last_error = NoError
    /\ delay = NoDelay
    /\ invocations = 0
    /\ call_records = <<>>
    /\ slept = <<>>
    /\ func_outcomes = <<>>
    /\ wr_result = None
    /\ wr_raised = NoError
    /\ BatchInitAtRest
    /\ PureInitAtRest
    /\ LoggerInitAtRest
    /\ ProviderInitAtRest

ThreadSpecNext ==
    ThreadNext /\ UNCHANGED <<retryCallVars, batchVars, pureVars, loggerVars, providerVars>>

SpecLoggerThreads == ThreadSpecInit /\ [][ThreadSpecNext]_vars

SpecPure == PureSpecInit /\ [][PureSpecNext]_vars

\* run_geocoding_batch, no with_retry call in progress
\* The geodata file of the run already hosts an audit record
LoggerInitWithRecord ==
    /\ wr_pc = "idle"
    /\ retry_strategy = NoStrategy
    /\ wr_args = NoArgs
    /\ attempt = 0
    /\ last_error = NoError
    /\ delay = NoDelay
    /\ invocations = 0
    /\ call_records = <<>>
    /\ slept = <<>>
    /\ func_outcomes = <<>>
    /\ wr_result = None
    /\ wr_raised = NoError
    /\ logs = <<>>
    /\ persisted_log = EarlierEntries(1)

Init ==
    /\ BatchInit
    /\ LoggerInitWithRecord
    /\ PureInitAtRest
    /\ LoggerInitAtRest
    /\ ProviderInitAtRest
    /\ ThreadInitAtRest

Next == BatchNext

Spec == Init /\ [][Next]_vars

(***************************************************************************)
(* Properties of with_retry (SpecRetry).                                   *)
(***************************************************************************)
RetryableTypes == { "RetryableError", "ConnectionError", "TimeoutError" }

Statuses(records) == [i \in 1..Len(records) |-> records[i].status]

\* The outcomes of func so far are n raises of retryable-type errors
AllRetryableRaises(outcomes) ==
    \A i \in 1..Len(outcomes) :
        /\ outcomes[i].kind = "raise"
        /\ outcomes[i].error.type \in RetryableTypes

LastOutcome == func_outcomes[Len(func_outcomes)]

C2_AttemptsWithinMaxRetries ==
    wr_pc # "idle" => invocations <= retry_strategy.max_retries

\* C2 amended: the invocations of the operation in one call never exceed
\* max(1, max_retries); the first invocation is made whatever max_retries is.
C2_AttemptsWithinBudget ==
    wr_pc # "idle" => invocations <= Max(1, retry_strategy.max_retries)

C2_Witness ==
    /\ wr_pc = "raised"
    /\ retry_strategy.max_retries = 3
    /\ invocations = 3

\* What with_retry does when every invocation raised a retryable-type error and
\* the call has ended, for a budget of n invocations
ExhaustedAfter(n) ==
    /\ invocations = n
    /\ Statuses(call_records) = [i \in 1..n |-> IF i < n THEN "retry" ELSE "failed"]
    /\ wr_raised = LastOutcome.error
    /\ wr_raised.id = invocations

\* C3 as stated: when the operation raises a retryable-type error on every
\* attempt, with_retry invokes it exactly max_retries times, logs max_retries-1
\* retry records and one failed record, and raises the error of the last
\* attempt unchanged.
C3_ExhaustionAtMaxRetries ==
    (wr_pc = "raised" /\ AllRetryableRaises(func_outcomes)) =>
        ExhaustedAfter(retry_strategy.max_retries)

\* C3 amended: when the operation raises a retryable-type error on every
\* attempt, with_retry invokes it exactly max(1, max_retries) times, logs one
\* retry record for each invocation but the last and one failed record for the
\* last, and raises the error of the last attempt unchanged; a call never ends
\* on a retryable-type error before that many invocations.
C3_ExhaustionAtBudget ==
    /\ (wr_pc = "raised" /\ AllRetryableRaises(func_outcomes)) =>
           ExhaustedAfter(Max(1, retry_strategy.max_retries))
    /\ (wr_pc \in {"loop", "sleeping"}) =>
           /\ AllRetryableRaises(func_outcomes)
           /\ invocations < Max(1, retry_strategy.max_retries)

C3_Witness ==
    /\ wr_pc = "raised"
    /\ AllRetryableRaises(func_outcomes)
    /\ retry_strategy.max_retries = 2
    /\ Statuses(call_records) = <<"retry", "failed">>

\* The category the classification rules give each message of the model
ExpectedCategory(m) ==
    CASE m = "MsgRateLimit"  -> "RATE_LIMIT"
      [] m = "MsgAuth"       -> "AUTH_ERROR"
      [] m = "MsgBadRequest" -> "INVALID_REQUEST"
      [] m = "MsgNotFound"   -> "NOT_FOUND"
      [] m = "MsgServer"     -> "SERVER_ERROR"
      [] m = "MsgNetwork"    -> "NETWORK_ERROR"
      [] m = "MsgOther"      -> "UNKNOWN_ERROR"
      [] m = "MsgMixed"      -> "RATE_LIMIT"
      [] m = "MsgQuotaUpper" -> "RATE_LIMIT"
      [] m = "MsgServerTimeout" -> "SERVER_ERROR"
      [] m = "MsgInvalidNotFound" -> "INVALID_REQUEST"
      [] m = "MsgMonkey"     -> "AUTH_ERROR"
      [] m = "MsgEmpty"      -> "UNKNOWN_ERROR"

FirstRaiseIsNotRetryableType ==
    /\ Len(func_outcomes) >= 1
    /\ func_outcomes[1].kind = "raise"
    /\ func_outcomes[1].error.type \notin RetryableTypes

\* C4: when the first attempt raises a PermanentError or an error of any type
\* other than RetryableError, ConnectionError and TimeoutError, whatever its
\* message, with_retry makes exactly one attempt, writes exactly one audit
\* record, with status failed and the category of the message text, never
\* sleeps, and raises that error.
C4_NonRetryableTypeFailsAtOnce ==
    FirstRaiseIsNotRetryableType =>
        /\ wr_pc = "raised"
        /\ invocations = 1
        /\ Len(call_records) = 1
        /\ call_records[1].status = "failed"
        /\ call_records[1].attempt = 1
        /\ call_records[1].error_category =
               ExpectedCategory(func_outcomes[1].error.msg)
        /\ call_records[1].error_message = func_outcomes[1].error.msg
        /\ slept = <<>>
        /\ wr_raised = func_outcomes[1].error

C4_Witness ==
    /\ FirstRaiseIsNotRetryableType
    /\ func_outcomes[1].error.type = "ValueError"
    /\ call_records[1].error_category = "NETWORK_ERROR"
    /\ retry_strategy.max_retries = 3
    /\ wr_pc = "raised"

\* C5: when the operation raises retryable-type errors on its first k attempts
\* and returns on attempt k+1 <= max_retries, with_retry returns the value of
\* attempt k+1 and its audit records are k retry records and one success
\* record, numbered 1..k+1 in order; the call is not ended by a retryable-type
\* error while attempts remain.
C5_SuccessAfterRetries ==
    /\ wr_pc = "returned" =>
           /\ LastOutcome.kind = "return"
           /\ wr_result = LastOutcome.value
           /\ AllRetryableRaises(SubSeq(func_outcomes, 1, invocations - 1))
           /\ Statuses(call_records) =
                  [i \in 1..invocations |->
                      IF i < invocations THEN "retry" ELSE "success"]
           /\ \A i \in 1..invocations : call_records[i].attempt = i
           /\ Len(slept) = invocations - 1
    /\ wr_pc = "raised" =>
           ~(/\ AllRetryableRaises(func_outcomes)
             /\ invocations < retry_strategy.max_retries)

C5_Witness ==
    /\ wr_pc = "returned"
    /\ Statuses(call_records) = <<"retry", "retry", "success">>
    /\ wr_result = "done"

(***************************************************************************)
(* Properties of the pure functions (SpecPure).                            *)
(***************************************************************************)
\* C6: should_retry(attempt, error) is true exactly when attempt < max_retries,
\* the error is not a PermanentError and its type is RetryableError,
\* ConnectionError or TimeoutError; it is false for every attempt >=
\* max_retries, and it does not depend on the message or its category.
C6_ShouldRetryByTypeAndBudget ==
    fn_pc = "should_retry" =>
        /\ fn_retry =
               (/\ fn_attempt < fn_strategy.max_retries
                /\ fn_error.type # "PermanentError"
                /\ fn_error.type \in RetryableTypes)
        /\ fn_attempt >= fn_strategy.max_retries => ~fn_retry

C6_Witness ==
    /\ fn_pc = "should_retry"
    /\ fn_error.type = "ValueError"
    /\ fn_error.msg = "MsgNetwork"
    /\ fn_attempt < fn_strategy.max_retries
    /\ ~fn_retry

(***************************************************************************)
(* Properties of run_geocoding_batch (Spec).                               *)
(***************************************************************************)
OKCount(results) ==
    Cardinality({ i \in 1..Len(results) : results[i].status = "OK" })

MergeCompleted == merge_outcome \in {"written", "nothing_to_write"}

\* C7 as stated: for a non-empty list of work items run_geocoding_batch returns
\* (s, t) with t the number of items attempted and s the number of results
\* with status OK, also when the merge is refused or fails.
C7_ReturnsOKCountAlways ==
    (run_pc = "done" /\ assets # <<>>) =>
        run_result = <<OKCount(all_results), Len(assets)>>

\* C7 amended: for a non-empty list of work items run_geocoding_batch returns
\* (s, t) with t the number of items attempted; s is the number of results
\* with status OK when the merge completes, and 0 when the merge is refused by
\* prepare_for_enrichment or fails with an exception.
C7_ReturnsMergedCount ==
    (run_pc = "done" /\ assets # <<>>) =>
        /\ Len(all_results) = Len(assets)
        /\ provider_calls = Len(assets)
        /\ run_result[2] = Len(assets)
        /\ run_result[1] = IF MergeCompleted THEN OKCount(all_results) ELSE 0

C7_Witness ==
    /\ run_pc = "done"
    /\ Len(assets) = 3
    /\ merge_outcome = "written"
    /\ run_result = <<2, 3>>

\* Every result of the run with status OK has its row in the persisted table
EveryOKResultApplied ==
    \A j \in 1..Len(all_results) :
        all_results[j].status = "OK" =>
            \E i \in 1..Len(geodata) :
                /\ geodata[i].asset_id = all_results[j].asset_id
                /\ geodata[i].latitude = all_results[j].latitude
                /\ geodata[i].longitude = all_results[j].longitude

C9_MergeAfterAllTasks ==
    /\ run_pc \in {"merge_prepare", "merge_read", "merge_write"} =>
           \A k \in 1..Len(task_pc) : task_pc[k] = "done"
    /\ (run_pc # "idle" /\ \E k \in 1..Len(task_pc) : task_pc[k] # "done") =>
           /\ run_pc = "collect"
           /\ geodata = geodata_before
           /\ store_writes = 0
           /\ merge_outcome = "none"

C9_Witness ==
    /\ run_pc = "merge_read"
    /\ Len(task_pc) = 3
    /\ run_args.workers = 2
    /\ bg.provider = "test"

IdsOf(table) == { table[i].asset_id : i \in 1..Len(table) }

HasOKResult(id) ==
    \E j \in 1..Len(all_results) :
        all_results[j].asset_id = id /\ all_results[j].status = "OK"

\* C10: after a merge that writes, every OK result has a row with its asset id
\* and its latitude and longitude, the row already present being updated and
\* a new row appended otherwise; rows whose id has no OK result are unchanged,
\* and results that are not OK add and change no row.
C10_MergeAppliesOKResults ==
    merge_outcome = "written" =>
        /\ EveryOKResultApplied
        /\ Len(geodata) = Len(geodata_before) + Cardinality(
               { all_results[j].asset_id : j \in
                   { n \in 1..Len(all_results) :
                       /\ all_results[n].status = "OK"
                       /\ all_results[n].asset_id \notin IdsOf(geodata_before) } })
        /\ \A i \in 1..Len(geodata_before) :
               /\ geodata[i].asset_id = geodata_before[i].asset_id
               /\ ~HasOKResult(geodata_before[i].asset_id) =>
                      geodata[i] = geodata_before[i]
        /\ \A i \in (Len(geodata_before) + 1)..Len(geodata) :
               /\ HasOKResult(geodata[i].asset_id)
               /\ geodata[i].asset_id \notin IdsOf(geodata_before)

C10_Witness ==
    /\ merge_outcome = "written"
    /\ \E i \in 1..Len(geodata_before) :
           /\ HasOKResult(geodata_before[i].asset_id)
           /\ geodata[i] # geodata_before[i]
    /\ \E i \in 1..Len(geodata_before) : ~HasOKResult(geodata_before[i].asset_id)
    /\ Len(geodata) > Len(geodata_before)
    /\ \E j \in 1..Len(all_results) : all_results[j].status # "OK"

(***************************************************************************)
(* C11: a merge that writes the store leaves the Metadata sheet, the       *)
(* AllowedValues sheet and the GeocodeLog table as they were before it.    *)
(* Before the run the two sheets exist without an index column and the     *)
(* GeocodeLog table holds one record.                                      *)
(***************************************************************************)
C11_MergeKeepsOtherSheets ==
    merge_outcome = "written" =>
        /\ metadata_sheet = Sheet(TRUE, 0)
        /\ allowed_sheet = Sheet(TRUE, 0)
        /\ persisted_log = EarlierEntries(1)

(***************************************************************************)
(* C12: a provider failure on one work item (a result that is not OK,      *)
(* which is also what an error inside a provider call becomes) aborts      *)
(* neither its chunk nor the batch: a finished chunk-task holds one result *)
(* per item of its chunk, in order; once the futures are collected there   *)
(* is one result per attempted item, in order; and a merge that writes     *)
(* applies every OK result, whatever the other results are.                *)
(***************************************************************************)
C12_FailureDoesNotAbort ==
    /\ \A k \in 1..Len(task_pc) :
           task_pc[k] = "done" =>
               /\ Len(task_results[k]) = Len(batches[k])
               /\ \A i \in 1..Len(batches[k]) :
                      task_results[k][i].asset_id = batches[k][i].asset_id
    /\ (run_pc \in {"merge_prepare", "merge_read", "merge_write", "done"}
           /\ assets # <<>>) =>
           /\ Len(all_results) = Len(assets)
           /\ \A j \in 1..Len(assets) :
                  all_results[j].asset_id = assets[j].asset_id
    /\ (run_pc = "done" /\ assets # <<>>) => run_result[2] = Len(assets)
    /\ merge_outcome = "written" => EveryOKResultApplied

\* A failure on the first item of a chunk of two, the second item and an item
\* of another chunk geocoded and merged
C12_Witness ==
    /\ run_pc = "done"
    /\ merge_outcome = "written"
    /\ Len(batches) = 2
    /\ Len(batches[1]) = 2
    /\ task_results[1][1].status # "OK"
    /\ task_results[1][2].status = "OK"
    /\ task_results[2][1].status = "OK"
    /\ EveryOKResultApplied

(***************************************************************************)
(* C13: when there are no work items (an empty list is supplied, the       *)
(* truncation to max_assets = 0 leaves none, or the identification returns *)
(* none) run_geocoding_batch returns (0, 0) with no provider call, no      *)
(* chunk-task (hence no rate-limit sleep), no result, no merge and no      *)
(* write: the table, the other sheets and the audit log are as before.     *)
(***************************************************************************)
NoWorkItemsInput ==
    \/ run_args.assets.given /\ run_args.assets.value = <<>>
    \/ run_args.max_assets.given /\ run_args.max_assets.value = 0
    \/ ~run_args.assets.given /\ ~asset_store.readable
    \/ /\ ~run_args.assets.given
       /\ \A i \in 1..Len(asset_store.rows) :
              \/ asset_store.rows[i].location_description = None
              \/ \E j \in 1..Len(geodata_before) :
                     /\ geodata_before[j].asset_id = asset_store.rows[i].asset_id
                     /\ geodata_before[j].latitude # NaN
                     /\ geodata_before[j].longitude # NaN

C13_NoWorkNoEffect ==
    (run_pc # "idle" /\ (NoWorkItemsInput \/ assets = <<>>)) =>
        /\ run_pc = "done"
        /\ run_result = <<0, 0>>
        /\ assets = <<>>
        /\ provider_calls = 0
        /\ task_pc = <<>>
        /\ batches = <<>>
        /\ all_results = <<>>
        /\ merge_outcome = "none"
        /\ store_writes = 0
        /\ geodata = geodata_before
        /\ metadata_sheet = Sheet(TRUE, 0)
        /\ allowed_sheet = Sheet(TRUE, 0)
        /\ persisted_log = EarlierEntries(1)

\* A supplied list cut to nothing by max_assets = 0
C13_Witness ==
    /\ run_pc = "done"
    /\ run_args.assets.given
    /\ run_args.assets.value # <<>>
    /\ run_args.max_assets.given
    /\ run_args.max_assets.value = 0
    /\ run_result = <<0, 0>>

(***************************************************************************)
(* Properties of the logger called directly (SpecLogger).                  *)
(***************************************************************************)
IsPrefix(s, t) == Len(s) <= Len(t) /\ SubSeq(t, 1, Len(s)) = s

\* C14: the persisted audit log is append-only: after a log_attempt,
\* flush_logs or generate_summary call, also one whose read of the existing
\* GeocodeLog table fails, the table begins with the records it held before
\* the call, unchanged and in the same order.
C14_PersistedLogAppendOnly ==
    IsPrefix(lg_last.persisted_before, persisted_log)

(***************************************************************************)
(* Properties of the pure functions (SpecPure), continued.                 *)
(***************************************************************************)
CategoryOrder ==
    << "RATE_LIMIT", "AUTH_ERROR", "INVALID_REQUEST", "NOT_FOUND",
       "SERVER_ERROR", "NETWORK_ERROR" >>

TermsOf(category) ==
    CASE category = "RATE_LIMIT"      -> RateLimitTerms
      [] category = "AUTH_ERROR"      -> AuthTerms
      [] category = "INVALID_REQUEST" -> InvalidRequestTerms
      [] category = "NOT_FOUND"       -> NotFoundTerms
      [] category = "SERVER_ERROR"    -> ServerTerms
      [] category = "NETWORK_ERROR"   -> NetworkTerms

\* The positions in CategoryOrder of the categories with a term in the text
MatchingCategories(text) ==
    { i \in 1..Len(CategoryOrder) :
        \E t \in TermsOf(CategoryOrder[i]) : Contains(Lower(text), t) }

\* C15: _categorize_error returns, for every error, the first category in the
\* order RATE_LIMIT, AUTH_ERROR, INVALID_REQUEST, NOT_FOUND, SERVER_ERROR,
\* NETWORK_ERROR one of whose terms occurs in the lowercased message, and
\* UNKNOWN_ERROR when none does; the message returned is the error's text.
C15_FirstMatchingCategory ==
    fn_pc = "categorize_error" =>
        LET hits == MatchingCategories(MessageText(fn_error.msg))
        IN  /\ hits = {} => fn_category = "UNKNOWN_ERROR"
            /\ hits # {} =>
                   \E i \in hits :
                       /\ \A j \in hits : i <= j
                       /\ fn_category = CategoryOrder[i]
            /\ fn_category = ExpectedCategory(fn_error.msg)
            /\ fn_message = fn_error.msg

\* A message with terms of three categories, classified by the earliest
C15_Witness ==
    /\ fn_pc = "categorize_error"
    /\ Cardinality(MatchingCategories(MessageText(fn_error.msg))) = 3
    /\ fn_category = "RATE_LIMIT"
    /\ fn_message = fn_error.msg

\* The delay the formula of get_retry_delay gives, in ticks
FormulaDelay(s, n) ==
    IF n <= 0 THEN 0
    ELSE LET power == IF n = 1 THEN 1 ELSE s.backoff_factor ^ (n - 1)
             raw == s.initial_delay * power
         IN  IF raw < s.max_delay THEN raw ELSE s.max_delay

TestStrategy ==
    [max_retries |-> MaxRetries, initial_delay |-> 4, max_delay |-> 40,
     backoff_factor |-> 2, jitter |-> FALSE]

\* The values test_get_retry_delay_no_jitter expects, in ticks
TestDelays ==
    (fn_strategy = TestStrategy /\ fn_attempt \in {0, 1, 2, 3, LargeAttempt}) =>
        fn_delay = (0 :> 0 @@ 1 :> 4 @@ 2 :> 8 @@ 3 :> 16 @@ LargeAttempt :> 40)[fn_attempt]

\* C16 as stated: with jitter disabled get_retry_delay(attempt) is 0 for
\* attempt <= 0 and min(max_delay, initial_delay * backoff_factor^(attempt-1))
\* for attempt >= 1, and for every strategy it is non-decreasing in attempt,
\* never above max_delay and never negative.
C16_DelayForEveryStrategy ==
    (fn_pc = "get_retry_delay" /\ ~fn_strategy.jitter) =>
        /\ fn_delay = FormulaDelay(fn_strategy, fn_attempt)
        /\ fn_delay <= fn_delay_next
        /\ fn_delay <= fn_strategy.max_delay
        /\ fn_delay >= 0

SoundDelays(s) ==
    s.initial_delay >= 0 /\ s.max_delay >= 0 /\ s.backoff_factor >= 1

\* C16 amended: with jitter disabled get_retry_delay(attempt) is 0 for
\* attempt <= 0 and min(max_delay, initial_delay * backoff_factor^(attempt-1))
\* for attempt >= 1; for every strategy with initial_delay >= 0,
\* max_delay >= 0 and backoff_factor >= 1 it is non-decreasing in attempt,
\* never above max_delay and never negative.
C16_DelayForSoundStrategy ==
    (fn_pc = "get_retry_delay" /\ ~fn_strategy.jitter) =>
        /\ fn_delay = FormulaDelay(fn_strategy, fn_attempt)
        /\ fn_delay_next = FormulaDelay(fn_strategy, fn_attempt + 1)
        /\ TestDelays
        /\ SoundDelays(fn_strategy) =>
               /\ fn_delay <= fn_delay_next
               /\ fn_delay <= fn_strategy.max_delay
               /\ fn_delay >= 0

\* Two successive delays of the test strategy below its cap
C16_Witness ==
    /\ fn_pc = "get_retry_delay"
    /\ ~fn_strategy.jitter
    /\ SoundDelays(fn_strategy)
    /\ fn_strategy.backoff_factor = 2
    /\ fn_attempt = 3
    /\ fn_delay = 16
    /\ fn_delay_next = 32

(***************************************************************************)
(* C17 (SpecProvider): two calls of the Deterministic-Test provider made   *)
(* one after the other with the same address return the same latitude,     *)
(* longitude and accuracy, whatever was geocoded in between.               *)
(***************************************************************************)
C17_SameAddressSameResult ==
    \A i, j \in 1..Len(gp_calls) :
        gp_calls[i].address = gp_calls[j].address =>
            /\ gp_calls[i].result.latitude = gp_calls[j].result.latitude
            /\ gp_calls[i].result.longitude = gp_calls[j].result.longitude
            /\ gp_calls[i].result.accuracy_meters = gp_calls[j].result.accuracy_meters

\* The same address geocoded twice with another address in between
C17_Witness ==
    /\ Len(gp_calls) >= 3
    /\ gp_calls[1].address = gp_calls[3].address
    /\ gp_calls[2].address # gp_calls[1].address
    /\ gp_calls[1].result = gp_calls[3].result
    /\ gp_calls[2].result # gp_calls[1].result

Located(id) ==
    \E j \in 1..Len(geodata_before) :
        /\ geodata_before[j].asset_id = id
        /\ geodata_before[j].latitude # NaN
        /\ geodata_before[j].longitude # NaN

NeedsGeocoding(record) ==
    record.location_description # None /\ ~Located(record.asset_id)

AssetIdsOf(records) == { records[i].asset_id : i \in 1..Len(records) }

\* Whether asset id a has a record with attempt number n or larger
AttemptReached(records, a, n) ==
    \E i \in 1..Len(records) : records[i].asset_id = a /\ records[i].attempt >= n

\* The sum over the asset ids of the largest attempt number recorded for each
SumOfLargestAttempts(records) ==
    Cardinality({ p \in AssetIdsOf(records) \X (1..MaxRetries + 2) :
                    AttemptReached(records, p[1], p[2]) })

\* What the summary says about the persisted table, whatever the flush did
SummaryMatchesTable ==
    /\ lg_summary.total_operations = Len(persisted_log)
    /\ lg_summary.successful_operations + lg_summary.retry_operations
           + lg_summary.failed_operations = lg_summary.total_operations
    /\ None \notin DOMAIN lg_summary.most_common_errors
    /\ \A c \in { persisted_log[i].error_category : i \in 1..Len(persisted_log) } \ {None} :
           /\ c \in DOMAIN lg_summary.most_common_errors
           /\ lg_summary.most_common_errors[c] =
                  Cardinality({ i \in 1..Len(persisted_log) :
                                  persisted_log[i].error_category = c })
    /\ \A c \in DOMAIN lg_summary.most_common_errors :
           \E i \in 1..Len(persisted_log) : persisted_log[i].error_category = c
    /\ lg_summary.average_attempts.count = Cardinality(AssetIdsOf(persisted_log))
    /\ lg_summary.average_attempts.sum = SumOfLargestAttempts(persisted_log)

\* C20 as stated: generate_summary first flushes the buffer, so every record
\* logged before the call is counted; total_operations is the number of
\* persisted records, the success, retry and failed counts add up to it, the
\* category counts are over the records that have a category, and
\* average_attempts is the mean over asset ids of the largest attempt number.
C20_SummaryCountsEveryRecord ==
    (lg_last.op = "generate_summary" /\ lg_summary.kind = "summary") =>
        /\ persisted_log = lg_last.persisted_before \o lg_last.logs_before
        /\ lg_summary.total_operations =
               Len(lg_last.persisted_before) + Len(lg_last.logs_before)
        /\ SummaryMatchesTable

\* C20 amended: generate_summary first calls flush_logs; when the read and the
\* write of that flush complete (or the buffer is empty) every record logged
\* before the call is counted; whenever the table can then be read the summary
\* has total_operations equal to the number of persisted records, the
\* success, retry and failed counts adding up to it, category counts over the
\* records that have a category, and average_attempts the mean over asset
\* ids of the largest attempt number.
C20_SummaryOfPersistedRecords ==
    (lg_last.op = "generate_summary" /\ lg_summary.kind = "summary") =>
        /\ (lg_last.readOk /\ lg_last.writeOk) =>
               /\ persisted_log = lg_last.persisted_before \o lg_last.logs_before
               /\ lg_summary.total_operations =
                      Len(lg_last.persisted_before) + Len(lg_last.logs_before)
        /\ SummaryMatchesTable

\* One persisted record and two buffered ones, of two asset ids: the flush
\* succeeds and the summary counts three operations, mean attempts 3/2
C20_Witness ==
    /\ lg_last.op = "generate_summary"
    /\ lg_summary.kind = "summary"
    /\ lg_last.readOk
    /\ lg_last.writeOk
    /\ Len(lg_last.persisted_before) = 1
    /\ Len(lg_last.logs_before) = 2
    /\ lg_summary.total_operations = 3
    /\ lg_summary.successful_operations = 2
    /\ lg_summary.retry_operations = 1
    /\ lg_summary.failed_operations = 0
    /\ lg_summary.most_common_errors = [c \in {"RATE_LIMIT"} |-> 1]
    /\ lg_summary.average_attempts = [sum |-> 3, count |-> 2]

(***************************************************************************)
(* Properties of the logger called directly (SpecLogger), continued.       *)
(***************************************************************************)
\* Whether the last call was a log_attempt that triggered a flush
LastLogAttemptFlushed ==
    lg_last.op = "log_attempt" /\ Len(lg_last.logs_before) + 1 >= FlushThreshold

\* The record the last log_attempt call was given
LastLogged == lg_logged[Len(lg_logged)]

\* C21 as stated: each log_attempt call appends exactly one record to the
\* buffer and triggers a flush when the buffer length reaches 50, so after
\* every log_attempt call the buffer holds fewer than 50 records.
C21_BufferBelowThreshold ==
    lg_last.op = "log_attempt" =>
        /\ ~LastLogAttemptFlushed => logs = Append(lg_last.logs_before, LastLogged)
        /\ Len(logs) < FlushThreshold

\* C21 amended: each log_attempt call appends exactly one record to the
\* buffer and triggers a flush when the buffer length is 50 or more; after the
\* call the buffer holds fewer than 50 records when there was no flush or its
\* write completed (it is then empty), and holds the records it had plus the
\* new one, 50 or more, when the write of the flush failed.
C21_BufferBelowThresholdUnlessWriteFails ==
    lg_last.op = "log_attempt" =>
        /\ ~LastLogAttemptFlushed =>
               /\ logs = Append(lg_last.logs_before, LastLogged)
               /\ Len(logs) < FlushThreshold
               /\ persisted_log = lg_last.persisted_before
        /\ (LastLogAttemptFlushed /\ lg_last.writeOk) => logs = <<>>
        /\ (LastLogAttemptFlushed /\ ~lg_last.writeOk) =>
               /\ logs = Append(lg_last.logs_before, LastLogged)
               /\ Len(logs) >= FlushThreshold

\* The fiftieth record flushed, and the buffer empty after the call
C21_Witness ==
    /\ lg_last.op = "log_attempt"
    /\ Len(lg_last.logs_before) = FlushThreshold - 1
    /\ lg_last.writeOk
    /\ logs = <<>>
    /\ Len(persisted_log) >= FlushThreshold

\* Whether the last call ran flush_logs on a buffer that was not empty
LastCallFlushed ==
    \/ lg_last.op \in {"flush_logs", "generate_summary"} /\ lg_last.logs_before # <<>>
    \/ LastLogAttemptFlushed

\* C23: a flush_logs call with a non-empty buffer that completes without
\* error (its read and its write complete) leaves the persisted table equal to
\* the records persisted before followed by the buffered records in the order
\* they were logged, and the buffer empty; a flush_logs call with an empty
\* buffer changes neither.
C23_FlushAppendsBuffer ==
    lg_last.op = "flush_logs" =>
        /\ (lg_last.logs_before # <<>> /\ lg_last.readOk /\ lg_last.writeOk) =>
               /\ persisted_log = lg_last.persisted_before \o lg_last.logs_before
               /\ logs = <<>>
        /\ lg_last.logs_before = <<>> =>
               /\ persisted_log = lg_last.persisted_before
               /\ logs = <<>>

\* Two records logged after one persisted record, then flushed
C23_Witness ==
    /\ lg_last.op = "flush_logs"
    /\ lg_last.readOk
    /\ lg_last.writeOk
    /\ Len(lg_last.logs_before) = 2
    /\ lg_last.logs_before[1] # lg_last.logs_before[2]
    /\ Len(lg_last.persisted_before) = 1
    /\ Len(persisted_log) = 3
    /\ logs = <<>>

AuditLog == persisted_log \o logs

\* The attempt numbers the audit log holds for one item id, in log order
AttemptsOf(id) ==
    LET recs == SelectSeq(AuditLog, LAMBDA r : r.asset_id = id)
    IN  [i \in 1..Len(recs) |-> recs[i].attempt]

StartsAtOneAndIncreases(nums) ==
    /\ nums # <<>> => nums[1] = 1
    /\ \A i \in 1..(Len(nums) - 1) : nums[i] < nums[i + 1]

\* C22 as stated: the attempt numbers the audit log holds for the item of a
\* with_retry call start at 1 and are strictly increasing in log order,
\* earlier with_retry calls for that item with the same logger included.
C22_AttemptsIncreaseAcrossCalls ==
    wr_pc # "idle" => StartsAtOneAndIncreases(AttemptsOf(wr_args.asset_id))

\* C22, amended: the records one with_retry call hands to the logger carry
\* the attempt numbers 1, 2, 3, ... in log order, whatever the logger
\* already holds for the item; every call starts again at 1.
C22_AttemptsIncreaseWithinCall ==
    \A i \in 1..Len(call_records) :
        /\ call_records[i].attempt = i
        /\ call_records[i].asset_id = wr_args.asset_id

\* A second call for an item has logged its second record after the two
\* records of the first call
C22_Witness ==
    /\ Len(call_records) = 2
    /\ logs = PriorCallRecords \o call_records
    /\ AttemptsOf("A1") = <<1, 2, 1, 2>>

(***************************************************************************)
(* C30.  Termination of with_retry.                                        *)
(***************************************************************************)
CallInProgress == wr_pc \in {"loop", "sleeping"}

CallEnded == wr_pc \in {"returned", "raised"}

\* C30: when every invocation of the operation and every sleep terminates, a
\* with_retry call that has started eventually returns a result or raises,
\* and it has invoked the operation at most max(1, max_retries) times at
\* every point of the call and when it ends.
C30_WithRetryTerminates ==
    /\ CallInProgress ~> CallEnded
    /\ [](wr_pc # "idle" =>
             /\ invocations <= Max(1, retry_strategy.max_retries)
             /\ Len(slept) <= invocations
             /\ wr_pc = "returned" => wr_result \in Values
             /\ wr_pc = "raised" => wr_raised = last_error)

\* A call that used its whole budget, sleeping between the invocations, and
\* returned on the last one
C30_Witness ==
    /\ wr_pc = "returned"
    /\ retry_strategy.max_retries = MaxRetries
    /\ invocations = MaxRetries
    /\ Len(slept) = MaxRetries - 1

(***************************************************************************)
(* C24.  The chunks of a run and the order of the collected results.       *)
(***************************************************************************)
RECURSIVE Flatten(_)
Flatten(seqs) ==
    IF seqs = <<>> THEN <<>>
    ELSE Flatten(SubSeq(seqs, 1, Len(seqs) - 1)) \o seqs[Len(seqs)]

\* The places <<k, j>> of the chunks that hold the asset
PlacesOf(asset) ==
    { kj \in (1..Len(batches)) \X (1..MaxBatchSize) :
        kj[2] <= Len(batches[kj[1]]) /\ batches[kj[1]][kj[2]] = asset }

AssetIdsIn(results) == [i \in 1..Len(results) |-> results[i].asset_id]

\* The results collected so far are those of the first chunks, in item order
CollectedInItemOrder ==
    LET collected == Flatten(SubSeq(batches, 1, future_idx - 1))
    IN  AssetIdsIn(all_results) = AssetIdsIn(collected)

\* C24: the chunks of a run are consecutive pieces of the attempted item
\* list: their concatenation in order is that list, every chunk has between
\* 1 and batch_size items, every item is in exactly one place of one chunk;
\* and the collected results follow the item order, whatever the order in
\* which the chunk-tasks finished.
C24_ChunksPartitionItems ==
    (run_pc # "idle" /\ assets # <<>>) =>
        /\ Flatten(batches) = assets
        /\ \A k \in 1..Len(batches) :
              Len(batches[k]) >= 1 /\ Len(batches[k]) <= bg.batch_size
        /\ \A i \in 1..Len(assets) : Cardinality(PlacesOf(assets[i])) = 1
        /\ CollectedInItemOrder
        /\ run_pc # "collect" => AssetIdsIn(all_results) = AssetIdsIn(assets)

\* Three items in chunks of two, the second chunk-task finished before the
\* first, and every result collected
C24_Witness ==
    /\ run_pc = "merge_prepare"
    /\ Len(assets) = 3
    /\ bg.batch_size = 2
    /\ Len(batches) = 2
    /\ finish_order = <<2, 1>>

(***************************************************************************)
(* C25.  One chunk-task: a sleep before every provider call, one item      *)
(* after another.                                                          *)
(***************************************************************************)
\* What a chunk-task does for one item, in order
ItemEvents == <<"sleep", "call", "return">>

\* The events of a task that has sleeps, calls and returns in turn
InTurn(events) ==
    \A i \in 1..Len(events) : events[i] = ItemEvents[((i - 1) % 3) + 1]

CountOf(events, e) == Cardinality({ i \in 1..Len(events) : events[i] = e })

\* C25: in every chunk-task the events are sleep, call, return, sleep, call,
\* return, ...: every provider call comes right after a sleep of the same
\* task, no call starts before the previous call of the task has returned,
\* and the items are handled one after another in chunk order, the j-th
\* returned call being the one of the j-th item of the chunk.
C25_SleepBeforeEveryCall ==
    \A k \in 1..Len(task_events) :
        /\ InTurn(task_events[k])
        /\ CountOf(task_events[k], "return") = Len(task_results[k])
        /\ Len(task_results[k]) = task_idx[k] - 1
        /\ \A j \in 1..Len(task_results[k]) :
              task_results[k][j].asset_id = batches[k][j].asset_id
        /\ task_pc[k] \in {"call", "t_lat", "t_lng", "t_acc"} =>
              /\ task_events[k][Len(task_events[k])] \in {"sleep", "call"}
              /\ CountOf(task_events[k], "sleep") = task_idx[k]
        /\ task_pc[k] = "done" => Len(task_events[k]) = 3 * Len(batches[k])

\* A chunk-task inside the provider call of its second item while another
\* chunk-task is inside a provider call too
C25_Witness ==
    \E k, j \in 1..Len(task_pc) :
        /\ k # j
        /\ task_pc[k] = "t_lat"
        /\ task_idx[k] = 2
        /\ task_events[k] = <<"sleep", "call", "return", "sleep", "call">>
        /\ task_pc[j] \in {"t_lat", "t_lng", "t_acc"}

(***************************************************************************)
(* C26.  identify_assets_needing_geocoding after a run that wrote the      *)
(* store.                                                                  *)
(***************************************************************************)
AssetIdSet(items) == { items[i].asset_id : i \in 1..Len(items) }

\* The assets identify_assets_needing_geocoding returned before the run
WorkBefore == identify_assets_needing_geocoding(asset_store, geodata_before)

ResultsWith(ok) ==
    { all_results[i].asset_id : i \in
        { j \in 1..Len(all_results) : (all_results[j].status = "OK") = ok } }

\* C26: after a run whose merge wrote the store, a subsequent
\* identify_assets_needing_geocoding returns no asset whose result in the
\* run was OK and still returns every asset whose result was not OK and that
\* it returned before the run; a repeated run, which attempts what identify
\* returns, attempts none of the merged assets.
C26_MergedAssetsNotIdentifiedAgain ==
    (work_after.called /\ merge_outcome = "written") =>
        /\ ResultsWith(TRUE) \cap AssetIdSet(work_after.items) = {}
        /\ (ResultsWith(FALSE) \cap AssetIdSet(WorkBefore))
               \subseteq AssetIdSet(work_after.items)
        /\ AssetIdSet(work_after.items) \subseteq AssetIdSet(WorkBefore)
        /\ LET again == Batches(work_after.items, bg.batch_size)
           IN  \A k \in 1..Len(again) : \A j \in 1..Len(again[k]) :
                   again[k][j].asset_id \notin ResultsWith(TRUE)

\* A run found its own work, one asset was geocoded and merged, another asset
\* failed and is identified again
C26_Witness ==
    /\ work_after.called
    /\ merge_outcome = "written"
    /\ ~run_args.assets.given
    /\ ResultsWith(TRUE) # {}
    /\ ResultsWith(FALSE) # {}
    /\ ResultsWith(FALSE) \subseteq AssetIdSet(work_after.items)
    /\ AssetIdSet(WorkBefore) = ResultsWith(TRUE) \cup ResultsWith(FALSE)

(***************************************************************************)
(* C28.  The Deterministic-Test provider under concurrent chunk-tasks.     *)
(***************************************************************************)
\* What _geocode_test returns for the address when no other thread touches
\* the generator during the call
LoneCall(location_str) == geocode_test(rng, location_str).result

\* C28: with the Deterministic-Test provider, in every interleaving of the
\* chunk-tasks the latitude, longitude and accuracy of every item's result
\* are the values a lone call with that item's address returns.
C28_ConcurrentResultsAreLoneCallResults ==
    bg.provider = "test" =>
        \A k \in 1..Len(task_results) : \A j \in 1..Len(task_results[k]) :
            LET lone == LoneCall(batches[k][j].location_description)
                got == task_results[k][j]
            IN  /\ got.latitude = lone.latitude
                /\ got.longitude = lone.longitude
                /\ got.accuracy_meters = lone.accuracy_meters

(***************************************************************************)
(* C27.  log_attempt called by several threads on one GeocodeLogger.       *)
(***************************************************************************)
\* How many times the record is in the table
TimesIn(table, record) == Cardinality({ i \in 1..Len(table) : table[i] = record })

EachLoggedRecordPersistedOnce ==
    \A i \in 1..Len(th_logged) : TimesIn(persisted_log, th_logged[i]) = 1

\* C27 as stated: in every interleaving of the threads' log_attempt calls,
\* after the final flush_logs every logged record is in the persisted table
\* exactly once.
C27_EveryRecordPersistedOnce ==
    th_final => EachLoggedRecordPersistedOnce

\* C27, amended: when the log_attempt calls are serialized, no call
\* beginning before the previous one has returned, after the final flush_logs
\* every logged record is in the persisted table exactly once, in the order
\* logged, and the buffer is empty.
C27_SerializedRecordsPersistedOnce ==
    (th_final /\ ~th_overlap) =>
        /\ EachLoggedRecordPersistedOnce
        /\ persisted_log = th_logged
        /\ logs = <<>>

\* Both threads have logged, one call at a time, a call reached the
\* threshold and flushed, and the final flush persisted the rest
C27_Witness ==
    /\ th_final
    /\ ~th_overlap
    /\ \A t \in LogThreads : th_calls[t] = MaxThreadCalls
    /\ Len(th_logged) > FlushThreshold
    /\ persisted_log = th_logged

====
